---- MODULE Spec2Model ----
(***************************************************************************)
(* A model of the cue-parser library: the line-driven CueParser            *)
(* (src/parser.ts), the serializer (src/serializer.ts) and the time        *)
(* utilities (src/utils.ts).                                               *)
(*                                                                         *)
(* JavaScript strings are modelled as sequences of one-character strings,  *)
(* so that trimming, splitting, quoting and number formatting are computed *)
(* the way the code computes them.  An optional field is a sequence of     *)
(* length 0 (absent) or 1 (present).                                       *)
(***************************************************************************)
EXTENDS Integers, Sequences, FiniteSets, TLC

(***************************************************************************)
(* Bounds of the model.                                                    *)
(***************************************************************************)
\* number of input lines a modelled parse() call consumes at most
MaxLines == 2
\* number of tracks of the documents handed to the serializer at most
MaxTracks == 2
\* number of parse() calls made on one parser at most
MaxCalls == 2
\* the largest minutes (or hours) field of the time operands
MaxMinutes == 99

(***************************************************************************)
(* JavaScript string primitives.                                           *)
(***************************************************************************)
\* a string literal as a sequence of characters
Chars(s) == [i \in 1..Len(s) |-> SubSeq(s, i, i)]

None == <<>>
Some(v) == <<v>>
IsSome(o) == Len(o) = 1
Get(o) == o[1]

\* the white space String.prototype.trim and the regex class \s strip
IsWS(c) == c \in {" ", "\t", "\r", "\n"}

Digits == Chars("0123456789")
IsDigit(c) == \E i \in 1..10 : Digits[i] = c
DigitVal(c) == (CHOOSE i \in 1..10 : Digits[i] = c) - 1

LowerLetters == Chars("abcdefghijklmnopqrstuvwxyz")
UpperLetters == Chars("ABCDEFGHIJKLMNOPQRSTUVWXYZ")
IsUpperLetter(c) == \E i \in 1..26 : UpperLetters[i] = c
UpperChar(c) ==
  IF \E i \in 1..26 : LowerLetters[i] = c
    THEN UpperLetters[CHOOSE i \in 1..26 : LowerLetters[i] = c]
    ELSE c
ToUpperCase(s) == [i \in 1..Len(s) |-> UpperChar(s[i])]

RECURSIVE TrimStart(_)
TrimStart(s) ==
  IF s = <<>> THEN s
  ELSE IF IsWS(Head(s)) THEN TrimStart(Tail(s)) ELSE s

RECURSIVE TrimEnd(_)
TrimEnd(s) ==
  IF s = <<>> THEN s
  ELSE IF IsWS(s[Len(s)]) THEN TrimEnd(SubSeq(s, 1, Len(s) - 1)) ELSE s

Trim(s) == TrimEnd(TrimStart(s))

\* s.indexOf(c, from): 0-based position of the first c at or after from, or -1
IndexOf(s, c, from) ==
  IF \E i \in (from + 1)..Len(s) : s[i] = c
    THEN (CHOOSE i \in (from + 1)..Len(s) :
            s[i] = c /\ \A j \in (from + 1)..(i - 1) : s[j] # c) - 1
    ELSE -1

Includes(s, c) == \E i \in 1..Len(s) : s[i] = c

\* s.substring(a, b) and s.slice(a) for 0 <= a <= b <= length
Substring(s, a, b) == SubSeq(s, a + 1, b)
SliceFrom(s, a) == SubSeq(s, a + 1, Len(s))

StartsWith(s, p) == Len(s) >= Len(p) /\ SubSeq(s, 1, Len(p)) = p
EndsWith(s, p) == Len(s) >= Len(p) /\ SubSeq(s, Len(s) - Len(p) + 1, Len(s)) = p

\* s.split(c) for a one-character separator: the pieces between the
\* occurrences of c
SplitChar(s, c) ==
  LET seps   == {i \in 1..Len(s) : s[i] = c}
      n      == Cardinality(seps) + 1
      pos(k) == IF k = 0 THEN 0
                ELSE IF k = n THEN Len(s) + 1
                ELSE CHOOSE i \in seps : Cardinality({j \in seps : j < i}) = k - 1
  IN  [k \in 1..n |-> SubSeq(s, pos(k - 1) + 1, pos(k) - 1)]

\* s.split(/\s+/)
RECURSIVE SplitWSAcc(_, _, _)
SplitWSAcc(s, cur, acc) ==
  IF s = <<>> THEN Append(acc, cur)
  ELSE IF IsWS(Head(s)) THEN SplitWSAcc(TrimStart(s), <<>>, Append(acc, cur))
  ELSE SplitWSAcc(Tail(s), Append(cur, Head(s)), acc)
SplitWS(s) == SplitWSAcc(s, <<>>, <<>>)

\* lines.join('\n')
RECURSIVE Join(_, _)
Join(ls, sep) ==
  IF ls = <<>> THEN <<>>
  ELSE IF Len(ls) = 1 THEN ls[1]
  ELSE ls[1] \o sep \o Join(Tail(ls), sep)

\* s.replace(/"/g, '""')
RECURSIVE ReplaceQuotes(_)
ReplaceQuotes(s) ==
  IF s = <<>> THEN <<>>
  ELSE (IF Head(s) = "\"" THEN <<"\"", "\"">> ELSE <<Head(s)>>)
         \o ReplaceQuotes(Tail(s))

\* the value of a run of decimal digits
RECURSIVE DigitsValue(_, _)
DigitsValue(s, acc) ==
  IF s = <<>> THEN acc ELSE DigitsValue(Tail(s), acc * 10 + DigitVal(Head(s)))

\* the longest prefix of s made of digits
RECURSIVE DigitPrefix(_)
DigitPrefix(s) ==
  IF s = <<>> \/ ~IsDigit(Head(s)) THEN <<>>
  ELSE <<Head(s)>> \o DigitPrefix(Tail(s))

\* parseInt(s, 10): NaN is None, a number n is Some(n).  Leading white
\* space and a sign are skipped and anything after the digits is ignored.
NaN == None
IsNaN(r) == r = None
ParseInt(str) ==
  LET s    == TrimStart(str)
      neg  == s # <<>> /\ Head(s) = "-"
      body == IF s # <<>> /\ Head(s) \in {"-", "+"} THEN Tail(s) ELSE s
      ds   == DigitPrefix(body)
  IN  IF ds = <<>> THEN NaN
      ELSE Some(IF neg THEN 0 - DigitsValue(ds, 0) ELSE DigitsValue(ds, 0))

\* n.toString() for an integer n
RECURSIVE NatToString(_)
NatToString(n) ==
  IF n < 10 THEN <<Digits[n + 1]>>
  ELSE NatToString(n \div 10) \o <<Digits[(n % 10) + 1]>>
NumToString(n) == IF n < 0 THEN <<"-">> \o NatToString(0 - n) ELSE NatToString(n)

\* s.padStart(2, '0')
PadStart2(s) == IF Len(s) >= 2 THEN s ELSE [i \in 1..(2 - Len(s)) |-> "0"] \o s

(***************************************************************************)
(* Exceptions.  A function that can throw returns a record saying whether  *)
(* it threw, the Error's message, and the value it returned otherwise.     *)
(***************************************************************************)
Return(v) == [threw |-> FALSE, message |-> <<>>, value |-> v]
Raise(msg) == [threw |-> TRUE, message |-> msg, value |-> <<>>]

(***************************************************************************)
(* src/utils.ts, the MSF half: parseMSFTime.                               *)
(***************************************************************************)
parseMSFTime(timeString) ==
  LET trimmed == Trim(timeString)
      parts   == SplitChar(trimmed, ":")
      quoted  == Chars("Invalid MSF time format: \"") \o timeString \o Chars("\". ")
  IN  IF Len(parts) # 3
        THEN Raise(quoted \o Chars("Expected format: \"m:s:f\""))
      ELSE IF parts[1] = <<>> \/ parts[2] = <<>> \/ parts[3] = <<>>
        THEN Raise(quoted \o Chars("Missing time components."))
      ELSE
        LET minutes == ParseInt(parts[1])
            seconds == ParseInt(parts[2])
            frames  == ParseInt(parts[3])
        IN  IF IsNaN(minutes) \/ IsNaN(seconds) \/ IsNaN(frames)
              THEN Raise(quoted \o Chars("All parts must be numbers."))
            ELSE IF Get(minutes) < 0 \/ Get(seconds) < 0 \/ Get(frames) < 0
              THEN Raise(quoted \o Chars("All parts must be non-negative."))
            ELSE IF Get(seconds) >= 60
              THEN Raise(quoted \o Chars("Seconds must be less than 60."))
            ELSE IF Get(frames) >= 75
              THEN Raise(quoted \o Chars("Frames must be less than 75."))
            ELSE Return([minutes |-> Get(minutes), seconds |-> Get(seconds),
                         frames |-> Get(frames)])

(***************************************************************************)
(* The parser's data: CueGlobal and Track of src/types.ts.  Track objects  *)
(* live in a heap keyed by the number of the line that created them, so    *)
(* that the track list and the open-track slot hold references, as the     *)
(* JavaScript arrays and fields do.                                        *)
(***************************************************************************)
EmptyGlobal ==
  [catalog |-> None, cdTextFile |-> None, title |-> None, performer |-> None,
   songwriter |-> None, composer |-> None, arranger |-> None, message |-> None,
   discId |-> None, genre |-> None, upcEan |-> None, remarks |-> None]

NewTrack(number, mode) ==
  [number |-> number, mode |-> mode, file |-> None, title |-> None,
   performer |-> None, songwriter |-> None, composer |-> None,
   arranger |-> None, message |-> None, isrc |-> None, flags |-> None,
   indexes |-> None, pregap |-> None, postgap |-> None, remarks |-> None]

\* currentTrack = null
NoTrack == 0

\* the parser's fields after reset()
EmptyContext ==
  [currentTrack |-> NoTrack, heap |-> <<>>, global |-> EmptyGlobal,
   tracks |-> <<>>, errors |-> <<>>, warnings |-> <<>>]

\* the outcome of a handler: the fields as it left them, and whether it threw
Done(ctx) == [threw |-> FALSE, message |-> <<>>, ctx |-> ctx]
Throw(ctx, msg) == [threw |-> TRUE, message |-> msg, ctx |-> ctx]

\* this.currentTrack.<field> = value
SetTrackField(ctx, field, value) ==
  [ctx EXCEPT !.heap[ctx.currentTrack][field] = value]
\* this.global.<field> = value
SetGlobalField(ctx, field, value) == [ctx EXCEPT !.global[field] = value]
\* the diagnostic pushed onto this.errors instead of this.warnings
PushWarning_AsError(ctx, lineNumber, msg, rawLine) ==
  [ctx EXCEPT !.errors =
     Append(@, [line |-> lineNumber, message |-> msg, rawLine |-> rawLine])]
\* this.warnings.push({line, message, rawLine})
PushWarning(ctx, lineNumber, msg, rawLine) ==
  [ctx EXCEPT !.warnings =
     Append(@, [line |-> lineNumber, message |-> msg, rawLine |-> rawLine])]
\* (arr || []) followed by push(v)
PushOpt(arr, v) == IF IsSome(arr) THEN Some(Append(Get(arr), v)) ELSE Some(<<v>>)

parseCommand(line) ==
  LET trimmed    == Trim(line)
      spaceIndex == IndexOf(trimmed, " ", 0)
  IN  IF spaceIndex = -1
        THEN [command |-> trimmed, args |-> <<>>]
        ELSE [command |-> Substring(trimmed, 0, spaceIndex),
              args    |-> Trim(SliceFrom(trimmed, spaceIndex + 1))]

parseQuotedString(input) ==
  LET trimmed == Trim(input)
  IN  IF StartsWith(trimmed, <<"\"">>) /\ EndsWith(trimmed, <<"\"">>)
         /\ Len(trimmed) >= 2
        THEN SubSeq(trimmed, 2, Len(trimmed) - 1)
        ELSE trimmed

handleRemark(ctx, args, lineNumber) ==
  IF ctx.currentTrack # NoTrack
    THEN Done(SetTrackField(ctx, "remarks",
                PushOpt(ctx.heap[ctx.currentTrack].remarks, args)))
    ELSE Done(SetGlobalField(ctx, "remarks", PushOpt(ctx.global.remarks, args)))

\* IsCatalog with the pattern left unanchored at its end: /^\d{13}/
IsCatalog_Unanchored(s) == Len(s) >= 13 /\ \A i \in 1..13 : IsDigit(s[i])

\* /^\d{13}$/.test(s)
IsCatalog(s) == Len(s) = 13 /\ \A i \in 1..Len(s) : IsDigit(s[i])

handleCatalog(ctx, args, lineNumber) ==
  LET catalog == Trim(args)
  IN  IF ~IsCatalog(catalog)
        THEN Throw(ctx, Chars("CATALOG must be exactly 13 digits, got: ") \o catalog)
        ELSE Done(SetGlobalField(ctx, "catalog", Some(catalog)))

handleCdTextFile(ctx, args, lineNumber) ==
  Done(SetGlobalField(ctx, "cdTextFile", Some(parseQuotedString(args))))

FileFormats ==
  {Chars("BINARY"), Chars("MOTOROLA"), Chars("AIFF"), Chars("WAVE"), Chars("MP3")}

parseFileFormat(formatStr) ==
  LET format == ToUpperCase(formatStr)
  IN  IF format \notin FileFormats
        THEN Raise(Chars("Invalid file format: ") \o formatStr)
        ELSE Return(format)

\* returns {filename, format?}; format is an optional field
parseFileArgs(args) ==
  LET trimmed == Trim(args)
  IN  IF StartsWith(trimmed, <<"\"">>)
        THEN LET endQuoteIndex == IndexOf(trimmed, "\"", 1)
             IN  IF endQuoteIndex = -1
                   THEN Raise(Chars("Unterminated quoted filename"))
                   ELSE LET filename  == Substring(trimmed, 1, endQuoteIndex)
                            remaining == Trim(SliceFrom(trimmed, endQuoteIndex + 1))
                            fmt       == parseFileFormat(remaining)
                        IN  IF remaining # <<>>
                              THEN IF fmt.threw THEN fmt
                                   ELSE Return([filename |-> filename,
                                                format |-> Some(fmt.value)])
                              ELSE Return([filename |-> filename, format |-> None])
        ELSE LET parts    == SplitWS(trimmed)
                 filename == parts[1]
                 fmt      == parseFileFormat(parts[2])
             IN  IF Len(parts) > 1 /\ parts[2] # <<>>
                   THEN IF fmt.threw THEN fmt
                        ELSE Return([filename |-> filename,
                                     format |-> Some(fmt.value)])
                   ELSE Return([filename |-> filename, format |-> None])

\* handleFile rejecting a FILE command that has no open track
handleFile_ThrowsOutsideTrack(ctx, args, lineNumber) ==
  LET parts == parseFileArgs(args)
  IN  IF parts.threw THEN Throw(ctx, parts.message)
      ELSE IF ctx.currentTrack = NoTrack
        THEN Throw(ctx, Chars("FILE command must be inside a TRACK"))
      ELSE LET splited == SplitChar(parts.value.filename, "/")
           IN  Done(SetTrackField(ctx, "file",
                      Some([filename |-> splited[Len(splited)],
                            format |-> parts.value.format])))

handleFile(ctx, args, lineNumber) ==
  LET parts == parseFileArgs(args)
  IN  IF parts.threw THEN Throw(ctx, parts.message)
      ELSE
        LET splited  == SplitChar(parts.value.filename, "/")
            name     == splited[Len(splited)]
            fileInfo == [filename |-> name, format |-> parts.value.format]
        IN  IF ctx.currentTrack # NoTrack
              THEN Done(SetTrackField(ctx, "file", Some(fileInfo)))
              ELSE Done(PushWarning(ctx, lineNumber,
                     Chars("Global FILE commands are not recommended. Each TRACK should have its own FILE."),
                     Chars("FILE ") \o args))

TrackModes ==
  {Chars("AUDIO"), Chars("CDG"), Chars("MODE1/2048"), Chars("MODE1/2352"),
   Chars("MODE2/2336"), Chars("MODE2/2352"), Chars("CDI/2336"), Chars("CDI/2352")}

\* if (this.currentTrack) this.tracks.push(this.currentTrack)
CommitOpenTrack(ctx) ==
  IF ctx.currentTrack # NoTrack
    THEN [ctx EXCEPT !.tracks = Append(@, ctx.currentTrack)]
    ELSE ctx

\* The previous track is pushed before the arguments are validated, so the
\* push stays when the handler throws.
handleTrack(ctx, args, lineNumber) ==
  LET saved == CommitOpenTrack(ctx)
      parts == SplitWS(Trim(args))
  IN  IF Len(parts) < 2
        THEN Throw(saved, Chars("TRACK command requires track number and mode"))
      ELSE
        LET trackNumber == ParseInt(parts[1])
            trackMode   == ToUpperCase(parts[2])
        IN  IF IsNaN(trackNumber) \/ Get(trackNumber) < 1 \/ Get(trackNumber) > 99
              THEN Throw(saved, Chars("Invalid track number: ") \o parts[1]
                                  \o Chars(". Must be between 1 and 99."))
            ELSE IF trackMode \notin TrackModes
              THEN Throw(saved, Chars("Invalid track mode: ") \o parts[2])
            ELSE Done([saved EXCEPT
                         !.heap = (lineNumber :> NewTrack(Get(trackNumber), trackMode)) @@ @,
                         !.currentTrack = lineNumber])

handleIndex(ctx, args, lineNumber) ==
  IF ctx.currentTrack = NoTrack
    THEN Throw(ctx, Chars("INDEX command must be inside a TRACK"))
  ELSE
    LET parts == SplitWS(Trim(args))
    IN  IF Len(parts) < 2
          THEN Throw(ctx, Chars("INDEX command requires index number and time"))
        ELSE
          LET indexNumber == ParseInt(parts[1])
              time        == parseMSFTime(parts[2])
          IN  IF IsNaN(indexNumber) \/ Get(indexNumber) < 0 \/ Get(indexNumber) > 99
                THEN Throw(ctx, Chars("Invalid index number: ") \o parts[1]
                                  \o Chars(". Must be between 0 and 99."))
              ELSE IF time.threw THEN Throw(ctx, time.message)
              ELSE Done(SetTrackField(ctx, "indexes",
                          PushOpt(ctx.heap[ctx.currentTrack].indexes,
                                  [number |-> Get(indexNumber), time |-> time.value])))

handlePregap(ctx, args, lineNumber) ==
  IF ctx.currentTrack = NoTrack
    THEN Throw(ctx, Chars("PREGAP command must be inside a TRACK"))
  ELSE
    LET time == parseMSFTime(Trim(args))
    IN  IF time.threw THEN Throw(ctx, time.message)
        ELSE Done(SetTrackField(ctx, "pregap", Some(time.value)))

handlePostgap(ctx, args, lineNumber) ==
  IF ctx.currentTrack = NoTrack
    THEN Throw(ctx, Chars("POSTGAP command must be inside a TRACK"))
  ELSE
    LET time == parseMSFTime(Trim(args))
    IN  IF time.threw THEN Throw(ctx, time.message)
        ELSE Done(SetTrackField(ctx, "postgap", Some(time.value)))

TrackFlags == {Chars("PRE"), Chars("DCP"), Chars("4CH"), Chars("SCMS")}

handleFlags(ctx, args, lineNumber) ==
  IF ctx.currentTrack = NoTrack
    THEN Throw(ctx, Chars("FLAGS command must be inside a TRACK"))
  ELSE
    LET flagStrings == SplitWS(Trim(args))
        flags       == [i \in 1..Len(flagStrings) |-> ToUpperCase(flagStrings[i])]
        bad         == {i \in 1..Len(flags) : flags[i] \notin TrackFlags}
    IN  IF bad # {}
          THEN Throw(ctx, Chars("Invalid flag: ")
                            \o flagStrings[CHOOSE i \in bad : \A j \in bad : i <= j])
          ELSE Done(SetTrackField(ctx, "flags", Some(flags)))

\* handleIsrc reporting a missing track as a warning instead of raising
handleIsrc_WarnsOutsideTrack(ctx, args, lineNumber) ==
  IF ctx.currentTrack = NoTrack
    THEN Done(PushWarning(ctx, lineNumber,
                Chars("ISRC command must be inside a TRACK"), Chars("ISRC ") \o args))
    ELSE Done(SetTrackField(ctx, "isrc", Some(Trim(args))))

\* /^[A-Z0-9]{12}$/.test(s)
IsIsrc(s) == Len(s) = 12 /\ \A i \in 1..Len(s) : IsUpperLetter(s[i]) \/ IsDigit(s[i])

\* handleIsrc keeping the track's ISRC when the value fails the test
handleIsrc_DropsInvalid(ctx, args, lineNumber) ==
  IF ctx.currentTrack = NoTrack
    THEN Throw(ctx, Chars("ISRC command must be inside a TRACK"))
  ELSE IF ~IsIsrc(Trim(args))
    THEN Done(PushWarning(ctx, lineNumber,
                Chars("ISRC format may be invalid: ") \o Trim(args)
                  \o Chars(". Expected format: CCOOOOYYSSSSS"),
                Chars("ISRC ") \o args))
  ELSE Done(SetTrackField(ctx, "isrc", Some(Trim(args))))

\* handleIsrc raising after it has pushed the warning
handleIsrc_WarnsAndThrows(ctx, args, lineNumber) ==
  IF ctx.currentTrack = NoTrack
    THEN Throw(ctx, Chars("ISRC command must be inside a TRACK"))
  ELSE IF ~IsIsrc(Trim(args))
    THEN Throw(PushWarning(ctx, lineNumber,
                 Chars("ISRC format may be invalid: ") \o Trim(args)
                   \o Chars(". Expected format: CCOOOOYYSSSSS"),
                 Chars("ISRC ") \o args),
               Chars("Invalid ISRC: ") \o Trim(args))
  ELSE Done(SetTrackField(ctx, "isrc", Some(Trim(args))))

handleIsrc(ctx, args, lineNumber) ==
  IF ctx.currentTrack = NoTrack
    THEN Throw(ctx, Chars("ISRC command must be inside a TRACK"))
  ELSE
    LET isrc   == Trim(args)
        warned == IF ~IsIsrc(isrc)
                    THEN PushWarning(ctx, lineNumber,
                           Chars("ISRC format may be invalid: ") \o isrc
                             \o Chars(". Expected format: CCOOOOYYSSSSS"),
                           Chars("ISRC ") \o args)
                    ELSE ctx
    IN  Done(SetTrackField(warned, "isrc", Some(isrc)))

\* SetTextField without the test for an open track
SetTextField_AlwaysGlobal(ctx, field, args) ==
  Done(SetGlobalField(ctx, field, Some(parseQuotedString(args))))

\* the body shared by handleTitle .. handleMessage
SetTextField(ctx, field, args) ==
  IF ctx.currentTrack # NoTrack
    THEN Done(SetTrackField(ctx, field, Some(parseQuotedString(args))))
    ELSE Done(SetGlobalField(ctx, field, Some(parseQuotedString(args))))

handleTitle(ctx, args, lineNumber) == SetTextField(ctx, "title", args)
handlePerformer(ctx, args, lineNumber) == SetTextField(ctx, "performer", args)
handleSongwriter(ctx, args, lineNumber) == SetTextField(ctx, "songwriter", args)
handleComposer(ctx, args, lineNumber) == SetTextField(ctx, "composer", args)
handleArranger(ctx, args, lineNumber) == SetTextField(ctx, "arranger", args)
handleMessage(ctx, args, lineNumber) == SetTextField(ctx, "message", args)

handleDiscId(ctx, args, lineNumber) ==
  Done(SetGlobalField(ctx, "discId", Some(parseQuotedString(args))))
handleGenre(ctx, args, lineNumber) ==
  Done(SetGlobalField(ctx, "genre", Some(parseQuotedString(args))))
handleUpcEan(ctx, args, lineNumber) ==
  Done(SetGlobalField(ctx, "upcEan", Some(parseQuotedString(args))))

\* the command keywords parseLine's switch knows
Commands ==
  {"REM", "CATALOG", "CDTEXTFILE", "FILE", "TRACK", "INDEX", "PREGAP",
   "POSTGAP", "FLAGS", "ISRC", "TITLE", "PERFORMER", "SONGWRITER", "COMPOSER",
   "ARRANGER", "MESSAGE", "DISC_ID", "GENRE", "UPC_EAN"}

\* the case of the switch a line is dispatched to: a keyword, "" for a line
\* that is skipped, "?" for the default case
Dispatch(line) ==
  LET trimmed == Trim(line)
      command == ToUpperCase(parseCommand(trimmed).command)
  IN  IF trimmed = <<>> \/ command = <<>> THEN ""
      ELSE IF \E k \in Commands : Chars(k) = command
        THEN CHOOSE k \in Commands : Chars(k) = command
        ELSE "?"

parseLine(ctx, line, lineNumber) ==
  LET trimmed == Trim(line)
      cmd     == parseCommand(trimmed)
      args    == cmd.args
      case    == Dispatch(line)
  IN  CASE case = ""           -> Done(ctx)
        [] case = "REM"        -> handleRemark(ctx, args, lineNumber)
        [] case = "CATALOG"    -> handleCatalog(ctx, args, lineNumber)
        [] case = "CDTEXTFILE" -> handleCdTextFile(ctx, args, lineNumber)
        [] case = "FILE"       -> handleFile(ctx, args, lineNumber)
        [] case = "TRACK"      -> handleTrack(ctx, args, lineNumber)
        [] case = "INDEX"      -> handleIndex(ctx, args, lineNumber)
        [] case = "PREGAP"     -> handlePregap(ctx, args, lineNumber)
        [] case = "POSTGAP"    -> handlePostgap(ctx, args, lineNumber)
        [] case = "FLAGS"      -> handleFlags(ctx, args, lineNumber)
        [] case = "ISRC"       -> handleIsrc(ctx, args, lineNumber)
        [] case = "TITLE"      -> handleTitle(ctx, args, lineNumber)
        [] case = "PERFORMER"  -> handlePerformer(ctx, args, lineNumber)
        [] case = "SONGWRITER" -> handleSongwriter(ctx, args, lineNumber)
        [] case = "COMPOSER"   -> handleComposer(ctx, args, lineNumber)
        [] case = "ARRANGER"   -> handleArranger(ctx, args, lineNumber)
        [] case = "MESSAGE"    -> handleMessage(ctx, args, lineNumber)
        [] case = "DISC_ID"    -> handleDiscId(ctx, args, lineNumber)
        [] case = "GENRE"      -> handleGenre(ctx, args, lineNumber)
        [] case = "UPC_EAN"    -> handleUpcEan(ctx, args, lineNumber)
        [] OTHER               -> Done(PushWarning(ctx, lineNumber,
                                    Chars("Unknown command: ") \o cmd.command, line))

\* ParseLoopBody with an empty catch block
ParseLoopBody_Swallow(ctx, line_, lineNumber_) == parseLine(ctx, line_, lineNumber_).ctx

\* the body of parse's loop: parseLine under try/catch
ParseLoopBody(ctx, line, lineNumber) ==
  LET r == parseLine(ctx, line, lineNumber)
  IN  IF r.threw
        THEN [r.ctx EXCEPT !.errors =
                Append(@, [line |-> lineNumber, message |-> r.message,
                           rawLine |-> line])]
        ELSE r.ctx

\* the tracks array with the references followed
DerefTracks(ctx) == [i \in 1..Len(ctx.tracks) |-> ctx.heap[ctx.tracks[i]]]

\* ParseFinish withholding the document when there are warnings as well
ParseFinish_WarningsBlock(ctx) ==
  LET fin == CommitOpenTrack(ctx)
  IN  [errors   |-> fin.errors,
       warnings |-> fin.warnings,
       cueSheet |-> IF Len(fin.errors) = 0 /\ Len(fin.warnings) = 0
                      THEN Some([global |-> fin.global, tracks |-> DerefTracks(fin)])
                      ELSE None]

\* what parse does after its loop: commit the open track, build the result
ParseFinish(ctx) ==
  LET fin == CommitOpenTrack(ctx)
  IN  [errors   |-> fin.errors,
       warnings |-> fin.warnings,
       cueSheet |-> IF Len(fin.errors) = 0
                      THEN Some([global |-> fin.global, tracks |-> DerefTracks(fin)])
                      ELSE None]

(***************************************************************************)
(* parseCueSheet(content): a fresh parser, reset, the loop over            *)
(* content.split('\n'), the final commit.                                  *)
(***************************************************************************)
\* the loop over lines[lo..hi], in order: the first half of the range, then
\* the second half on the context the first half left
RECURSIVE ParseRange(_, _, _, _)
ParseRange(ctx, lines, lo, hi) ==
  IF lo > hi THEN ctx
  ELSE IF lo = hi THEN ParseLoopBody(ctx, lines[lo], lo)
  ELSE LET mid   == (lo + hi) \div 2
           first == ParseRange(ctx, lines, lo, mid)
       IN  \* the test makes the first half's outcome a value before the
           \* second half starts
           IF first.currentTrack >= NoTrack
             THEN ParseRange(first, lines, mid + 1, hi)
             ELSE first

\* the loop from line i to the last line
ParseLines(ctx, lines, i) == ParseRange(ctx, lines, i, Len(lines))

parseCueSheet(content) ==
  ParseFinish(ParseLines(EmptyContext, SplitChar(content, "\n"), 1))

(***************************************************************************)
(* src/utils.ts, the HMS half: formatHMSTime.  It reads the fields hour,   *)
(* minute and second; on a time object without them (the {minutes,         *)
(* seconds, frames} objects parseMSFTime returns) undefined.toString()     *)
(* raises a TypeError.                                                     *)
(***************************************************************************)
HMS(h, m, s) == [hour |-> h, minute |-> m, second |-> s]
MSF(m, s, f) == [minutes |-> m, seconds |-> s, frames |-> f]

formatHMSTime(time, zeroPad) ==
  IF ~({"hour", "minute", "second"} \subseteq DOMAIN time)
    THEN Raise(Chars("Cannot read properties of undefined (reading 'toString')"))
  ELSE IF zeroPad
    THEN Return(PadStart2(NumToString(time.hour)) \o <<":">>
                  \o PadStart2(NumToString(time.minute)) \o <<":">>
                  \o PadStart2(NumToString(time.second)))
    ELSE Return(NumToString(time.hour) \o <<":">> \o NumToString(time.minute)
                  \o <<":">> \o NumToString(time.second))

(***************************************************************************)
(* src/utils.ts, the rest of the HMS half.                                 *)
(***************************************************************************)
parseHMSTime(timeString) ==
  LET trimmed == Trim(timeString)
      parts   == SplitChar(trimmed, ":")
      quoted  == Chars("Invalid time format: \"") \o timeString \o Chars("\". ")
  IN  IF Len(parts) # 3
        THEN Raise(quoted \o Chars("Expected format: \"h:m:s\""))
      ELSE IF parts[1] = <<>> \/ parts[2] = <<>> \/ parts[3] = <<>>
        THEN Raise(quoted \o Chars("Missing time components."))
      ELSE
        LET hours   == ParseInt(parts[1])
            minutes == ParseInt(parts[2])
            seconds == ParseInt(parts[3])
        IN  IF IsNaN(hours) \/ IsNaN(minutes) \/ IsNaN(seconds)
              THEN Raise(quoted \o Chars("All parts must be numbers."))
            ELSE IF Get(hours) < 0 \/ Get(minutes) < 0 \/ Get(seconds) < 0
              THEN Raise(quoted \o Chars("All parts must be non-negative."))
            ELSE IF Get(minutes) >= 60
              THEN Raise(quoted \o Chars("Minutes must be less than 60."))
            ELSE IF Get(seconds) >= 60
              THEN Raise(quoted \o Chars("Seconds must be less than 60."))
            ELSE Return(HMS(Get(hours), Get(minutes), Get(seconds)))

hmsToSeconds(time) == time.hour * 3600 + time.minute * 60 + time.second

\* seconds is an integer here, so Math.floor leaves it as it is
secondsToHMS(seconds) ==
  LET totalSeconds     == seconds
      hours            == totalSeconds \div 3600
      remainingSeconds == totalSeconds % 3600
      mins             == remainingSeconds \div 60
      secs             == remainingSeconds % 60
  IN  HMS(hours, mins, secs)

\* the msfToFrames and framesToMSF the HMS half declares: aliases of
\* hmsToSeconds and secondsToHMS
msfToFramesAlias(time) == hmsToSeconds(time)
framesToMSFAlias(totalSeconds) == secondsToHMS(totalSeconds)

\* subtractHMSTime returning 0:0:0 where the difference is negative
subtractHMSTime_Clamped(time1, time2) ==
  LET seconds1 == hmsToSeconds(time1)
      seconds2 == hmsToSeconds(time2)
  IN  IF seconds1 < seconds2 THEN Return(secondsToHMS(0))
      ELSE Return(secondsToHMS(seconds1 - seconds2))

subtractHMSTime(time1, time2) ==
  LET seconds1 == hmsToSeconds(time1)
      seconds2 == hmsToSeconds(time2)
  IN  IF seconds1 < seconds2
        THEN Raise(Chars("Cannot subtract: result would be negative"))
        ELSE Return(secondsToHMS(seconds1 - seconds2))

(***************************************************************************)
(* src/utils.ts, the rest of the MSF half.                                 *)
(***************************************************************************)
\* formatMSFTime ignoring zeroPad: no field is padded
formatMSFTime_NoPad(time, zeroPad) ==
  Return(NumToString(time.minutes) \o <<":">> \o NumToString(time.seconds)
           \o <<":">> \o NumToString(time.frames))

formatMSFTime(time, zeroPad) ==
  IF ~({"minutes", "seconds", "frames"} \subseteq DOMAIN time)
    THEN Raise(Chars("Cannot read properties of undefined (reading 'toString')"))
  ELSE IF zeroPad
    THEN Return(PadStart2(NumToString(time.minutes)) \o <<":">>
                  \o PadStart2(NumToString(time.seconds)) \o <<":">>
                  \o PadStart2(NumToString(time.frames)))
    ELSE Return(NumToString(time.minutes) \o <<":">> \o NumToString(time.seconds)
                  \o <<":">> \o NumToString(time.frames))

msfToFrames(time) == time.minutes * 60 * 75 + time.seconds * 75 + time.frames

\* framesToMSF counting 60 frames to the second
framesToMSF_SixtyFrames(totalFrames) ==
  LET minutes         == totalFrames \div (60 * 60)
      remainingFrames == totalFrames % (60 * 60)
  IN  MSF(minutes, remainingFrames \div 60, remainingFrames % 60)

framesToMSF(totalFrames) ==
  LET minutes         == totalFrames \div (75 * 60)
      remainingFrames == totalFrames % (75 * 60)
      seconds         == remainingFrames \div 75
      frames          == remainingFrames % 75
  IN  MSF(minutes, seconds, frames)

subtractMSFTime(time1, time2) ==
  LET frames1 == msfToFrames(time1)
      frames2 == msfToFrames(time2)
  IN  IF frames1 < frames2
        THEN Raise(Chars("Cannot subtract: result would be negative"))
        ELSE Return(framesToMSF(frames1 - frames2))

(***************************************************************************)
(* src/serializer.ts                                                       *)
(***************************************************************************)
\* JavaScript truthiness of an optional string: present and not ''
Truthy(o) == IsSome(o) /\ Get(o) # <<>>
\* of an optional array tested with `a && a.length > 0`
NonEmpty(o) == IsSome(o) /\ Len(Get(o)) > 0

escapeString(str) == ReplaceQuotes(str)

Quoted(keyword, str) == Chars(keyword) \o Chars(" \"") \o escapeString(str) \o Chars("\"")

\* lines.push(line) when cond holds
PushIf(lines, cond, ln) == IF cond THEN Append(lines, ln) ELSE lines

\* one line per remark, each behind the prefix
RemarkLines(prefix, remarks) ==
  [i \in 1..Len(remarks) |-> Chars(prefix) \o remarks[i]]

serializeGlobal(global_, lines) ==
  LET l0  == IF NonEmpty(global_.remarks)
               THEN lines \o RemarkLines("REM ", Get(global_.remarks)) ELSE lines
      l1  == PushIf(l0, Truthy(global_.catalog),
                    Chars("CATALOG ") \o Get(global_.catalog))
      l2  == PushIf(l1, Truthy(global_.cdTextFile),
                    Chars("CDTEXTFILE \"") \o Get(global_.cdTextFile) \o Chars("\""))
      l3  == PushIf(l2, Truthy(global_.title), Quoted("TITLE", Get(global_.title)))
      l4  == PushIf(l3, Truthy(global_.performer), Quoted("PERFORMER", Get(global_.performer)))
      l5  == PushIf(l4, Truthy(global_.songwriter), Quoted("SONGWRITER", Get(global_.songwriter)))
      l6  == PushIf(l5, Truthy(global_.composer), Quoted("COMPOSER", Get(global_.composer)))
      l7  == PushIf(l6, Truthy(global_.arranger), Quoted("ARRANGER", Get(global_.arranger)))
      l8  == PushIf(l7, Truthy(global_.message), Quoted("MESSAGE", Get(global_.message)))
      l9  == PushIf(l8, Truthy(global_.discId), Quoted("DISC_ID", Get(global_.discId)))
      l10 == PushIf(l9, Truthy(global_.genre), Quoted("GENRE", Get(global_.genre)))
  IN  PushIf(l10, Truthy(global_.upcEan), Quoted("UPC_EAN", Get(global_.upcEan)))

\* the FILE line both serializeTracksOptimized and serializeTrackContent build
FileLine(indent, file) ==
  LET formatStr == IF IsSome(file.format) THEN <<" ">> \o Get(file.format) ELSE <<>>
  IN  IF Includes(file.filename, " ") \/ Includes(file.filename, "\"")
        THEN Chars(indent) \o Chars("FILE \"") \o escapeString(file.filename)
               \o Chars("\"") \o formatStr
        ELSE Chars(indent) \o Chars("FILE ") \o file.filename \o formatStr

\* [...indexes].sort((a, b) => a.number - b.number): a stable sort
RECURSIVE InsertIndex(_, _)
InsertIndex(sorted, x) ==
  IF sorted = <<>> THEN <<x>>
  ELSE IF sorted[Len(sorted)].number <= x.number THEN Append(sorted, x)
  ELSE Append(InsertIndex(SubSeq(sorted, 1, Len(sorted) - 1), x), sorted[Len(sorted)])

\* SortIndexes without the comparison: the indexes in document order
SortIndexes_DocumentOrder(ixs) == ixs

RECURSIVE SortIndexes(_)
SortIndexes(ixs) ==
  IF ixs = <<>> THEN <<>>
  ELSE InsertIndex(SortIndexes(SubSeq(ixs, 1, Len(ixs) - 1)), ixs[Len(ixs)])

\* `[...track.indexes].sort(...)` applied to the array itself
SortedCopy_InPlace(ixs) == [sorted |-> SortIndexes(ixs), original |-> SortIndexes(ixs)]

\* `[...track.indexes].sort(...)`: the sorted array the statement yields, and
\* what track.indexes holds after it
SortedCopy(ixs) == [sorted |-> SortIndexes(ixs), original |-> ixs]

\* the INDEX lines of the sorted indexes; raises when a time cannot be formatted
RECURSIVE IndexLinesOf(_, _)
IndexLinesOf(sortedIndexes, lines) ==
  IF sortedIndexes = <<>> THEN Return(lines)
  ELSE LET index == Head(sortedIndexes)
           t     == formatHMSTime(index.time, TRUE)
       IN  IF t.threw THEN t
           ELSE IndexLinesOf(Tail(sortedIndexes),
                  Append(lines, Chars("\t\t\tINDEX ") \o PadStart2(NumToString(index.number))
                                  \o <<" ">> \o t.value))

serializeTrackContent(track, lines) ==
  LET l0 == Append(lines, Chars("\t\tTRACK ") \o PadStart2(NumToString(track.number))
                            \o <<" ">> \o track.mode)
      l1 == PushIf(l0, Truthy(track.title), Chars("\t\t\t") \o Quoted("TITLE", Get(track.title)))
      l2 == PushIf(l1, Truthy(track.performer), Chars("\t\t\t") \o Quoted("PERFORMER", Get(track.performer)))
      l3 == PushIf(l2, Truthy(track.songwriter), Chars("\t\t\t") \o Quoted("SONGWRITER", Get(track.songwriter)))
      l4 == PushIf(l3, Truthy(track.composer), Chars("\t\t\t") \o Quoted("COMPOSER", Get(track.composer)))
      l5 == PushIf(l4, Truthy(track.arranger), Chars("\t\t\t") \o Quoted("ARRANGER", Get(track.arranger)))
      l6 == PushIf(l5, Truthy(track.message), Chars("\t\t\t") \o Quoted("MESSAGE", Get(track.message)))
      l7 == PushIf(l6, Truthy(track.isrc), Chars("\t\t\tISRC ") \o Get(track.isrc))
      l8 == PushIf(l7, IsSome(track.file), FileLine("\t\t\t", Get(track.file)))
      l9 == PushIf(l8, NonEmpty(track.flags),
                   Chars("\t\t\tFLAGS ") \o Join(Get(track.flags), <<" ">>))
      pre == formatHMSTime(Get(track.pregap), TRUE)
      ixs == IF NonEmpty(track.indexes)
               THEN IndexLinesOf(SortedCopy(Get(track.indexes)).sorted,
                                 IF IsSome(track.pregap)
                                   THEN Append(l9, Chars("\t\t\tPREGAP ") \o pre.value)
                                   ELSE l9)
               ELSE Return(IF IsSome(track.pregap)
                             THEN Append(l9, Chars("\t\t\tPREGAP ") \o pre.value)
                             ELSE l9)
      post == formatHMSTime(Get(track.postgap), TRUE)
  IN  IF IsSome(track.pregap) /\ pre.threw THEN pre
      ELSE IF ixs.threw THEN ixs
      ELSE IF IsSome(track.postgap) /\ post.threw THEN post
      ELSE LET l12 == IF IsSome(track.postgap)
                        THEN Append(ixs.value, Chars("\t\t\tPOSTGAP ") \o post.value)
                        ELSE ixs.value
           IN  Return(IF NonEmpty(track.remarks)
                        THEN l12 \o RemarkLines("\t\t\tREM ", Get(track.remarks))
                        ELSE l12)

\* the track object as serializeTrackContent leaves it
TrackAfterContent(track) ==
  IF /\ NonEmpty(track.indexes)
     /\ ~(IsSome(track.pregap) /\ formatHMSTime(Get(track.pregap), TRUE).threw)
    THEN [track EXCEPT !.indexes = Some(SortedCopy(Get(track.indexes)).original)]
    ELSE track

\* the document as serializeCueSheet and formatCueSheet leave it: both hand
\* every track to serializeTrackContent until one call raises
DocumentAfterContent(cueSheet_) ==
  [cueSheet_ EXCEPT !.tracks =
     [i \in 1..Len(cueSheet_.tracks) |->
        IF \A j \in 1..(i - 1) : ~serializeTrackContent(cueSheet_.tracks[j], <<>>).threw
          THEN TrackAfterContent(cueSheet_.tracks[i])
          ELSE cueSheet_.tracks[i]]]

\* tracks.forEach of serializeTracksOptimized from track i on; lastFile is
\* None while undefined
RECURSIVE TracksOptimizedFrom(_, _, _, _)
TracksOptimizedFrom(tracks_, i, lastFile, lines) ==
  IF i > Len(tracks_) THEN Return(lines)
  ELSE
    LET track == tracks_[i]
        emit  == IsSome(track.file) /\ Some(Get(track.file).filename) # lastFile
        l0    == PushIf(lines, emit, FileLine("", Get(track.file)))
        r     == serializeTrackContent(track, l0)
    IN  IF r.threw THEN r
        ELSE TracksOptimizedFrom(tracks_, i + 1,
               IF emit THEN Some(Get(track.file).filename) ELSE lastFile, r.value)

serializeTracksOptimized(tracks_, lines) == TracksOptimizedFrom(tracks_, 1, None, lines)

\* returns the text, or raises what formatHMSTime raised
serializeCueSheet(cueSheet_) ==
  LET r == serializeTracksOptimized(cueSheet_.tracks,
                                    serializeGlobal(cueSheet_.global, <<>>))
  IN  IF r.threw THEN r ELSE Return(Join(r.value, <<"\n">>) \o <<"\n">>)

\* tracks.forEach of createMinimalCueSheet from track i on
RECURSIVE MinimalTracksFrom(_, _, _)
MinimalTracksFrom(tracks_, i, lines) ==
  IF i > Len(tracks_) THEN Return(lines)
  ELSE
    LET track == tracks_[i]
        l0 == Append(lines, Chars("\t\tTRACK ") \o PadStart2(NumToString(track.number))
                              \o <<" ">> \o track.mode)
        l1 == PushIf(l0, Truthy(track.title),
                     Chars("\t\t\t") \o Quoted("TITLE", Get(track.title)))
        formatStr == IF IsSome(track.file) /\ Truthy(Get(track.file).format)
                       THEN <<" ">> \o Get(Get(track.file).format) ELSE <<>>
        l2 == PushIf(l1, IsSome(track.file),
                     Chars("\t\t\tFILE \"") \o escapeString(Get(track.file).filename)
                       \o Chars("\"") \o formatStr)
        mains == IF IsSome(track.indexes)
                   THEN {k \in 1..Len(Get(track.indexes)) : Get(track.indexes)[k].number = 1}
                   ELSE {}
        \* indexes.find(idx => idx.number === 1): the first such index
        mainIndex == Get(track.indexes)[CHOOSE k \in mains : \A m \in mains : k <= m]
        t == formatHMSTime(mainIndex.time, TRUE)
    IN  IF mains = {} THEN MinimalTracksFrom(tracks_, i + 1, l2)
        ELSE IF t.threw THEN t
        ELSE MinimalTracksFrom(tracks_, i + 1,
                               Append(l2, Chars("\t\t\tINDEX 01 ") \o t.value))

\* createMinimalCueSheet without the INDEX 01 filter: every index is written
createMinimalCueSheet_AllIndexes(cueSheet_) ==
  LET r == serializeTracksOptimized(cueSheet_.tracks, <<>>)
  IN  IF r.threw THEN r ELSE Return(Join(r.value, <<"\n">>) \o <<"\n">>)

\* returns the text, or raises what formatHMSTime raised
createMinimalCueSheet(cueSheet_) ==
  LET l0 == PushIf(<<>>, Truthy(cueSheet_.global.title),
                   Quoted("TITLE", Get(cueSheet_.global.title)))
      l1 == PushIf(l0, Truthy(cueSheet_.global.performer),
                   Quoted("PERFORMER", Get(cueSheet_.global.performer)))
      r  == MinimalTracksFrom(cueSheet_.tracks, 1, l1)
  IN  IF r.threw THEN r ELSE Return(Join(r.value, <<"\n">>) \o <<"\n">>)

\* trackLines.forEach of formatCueSheet: the three-tab and two-tab prefixes
\* are replaced by three and two copies of indent
RECURSIVE Reindent(_, _)
Reindent(trackLines, indent) ==
  IF trackLines = <<>> THEN <<>>
  ELSE LET ln == Head(trackLines)
           out == IF StartsWith(ln, Chars("\t\t\t"))
                    THEN indent \o indent \o indent \o SliceFrom(ln, 3)
                  ELSE IF StartsWith(ln, Chars("\t\t"))
                    THEN indent \o indent \o SliceFrom(ln, 2)
                  ELSE ln
       IN  <<out>> \o Reindent(Tail(trackLines), indent)

\* cueSheet.tracks.forEach of formatCueSheet from track i on
RECURSIVE FormatTracksFrom(_, _, _, _, _)
FormatTracksFrom(tracks_, i, indent, trackSpacing, lines) ==
  IF i > Len(tracks_) THEN Return(lines)
  ELSE
    LET l0 == PushIf(lines, i > 1 /\ trackSpacing, <<>>)
        r  == serializeTrackContent(tracks_[i], <<>>)
    IN  IF r.threw THEN r
        ELSE FormatTracksFrom(tracks_, i + 1, indent, trackSpacing,
                              l0 \o Reindent(r.value, indent))

\* returns the text, or raises what formatHMSTime raised; an option the caller
\* leaves out is None
formatCueSheet(cueSheet_, options) ==
  LET indent       == IF Truthy(options.indent) THEN Get(options.indent) ELSE Chars("\t")
      trackSpacing == IF IsSome(options.trackSpacing) THEN Get(options.trackSpacing) ELSE TRUE
      l0 == serializeGlobal(cueSheet_.global, <<>>)
      l1 == PushIf(l0, Len(l0) > 0 /\ trackSpacing, <<>>)
      r  == FormatTracksFrom(cueSheet_.tracks, 1, indent, trackSpacing, l1)
  IN  IF r.threw THEN r ELSE Return(Join(r.value, <<"\n">>) \o <<"\n">>)

(***************************************************************************)
(* The input lines the model feeds to parse(), grouped by the case of      *)
(* parseLine's switch they reach.                                          *)
(***************************************************************************)
SkipLines == {Chars(""), Chars(" \t")}
RemLines == {Chars("REM note")}
CatalogLines == {Chars("CATALOG 1234567890123"), Chars("CATALOG 123"),
                 Chars("CATALOG 12345678901234")}
CdTextFileLines == {Chars("CDTEXTFILE \"cd.cdt\"")}
FileLines == {Chars("FILE \"a.wav\" WAVE"), Chars("FILE dir/b.mp3"),
              Chars("FILE a.wav XYZ"), Chars("  file a.wav wave")}
TrackLines == {Chars("TRACK 01 AUDIO"), Chars("  TRACK 02 audio"),
               Chars("TRACK 01 BAD"), Chars("TRACK 0 AUDIO"), Chars("TRACK 1x AUDIO")}
IndexLines == {Chars("INDEX 01 00:02:33"), Chars("INDEX 00 00:00:00"),
               Chars("INDEX 01 0:61:00")}
PregapLines == {Chars("PREGAP 00:02:00")}
PostgapLines == {Chars("POSTGAP 00:01:00")}
FlagsLines == {Chars("FLAGS PRE dcp"), Chars("FLAGS PRE XX")}
IsrcLines == {Chars("ISRC GBUM71505078"), Chars("ISRC bad"), Chars("    ISRC bad")}
TitleLines == {Chars("TITLE \"T\""), Chars("TITLE \"a\"\"b\"")}
PerformerLines == {Chars("PERFORMER \"P\"")}
SongwriterLines == {Chars("SONGWRITER \"S\"")}
ComposerLines == {Chars("COMPOSER \"C\"")}
ArrangerLines == {Chars("ARRANGER \"R\"")}
MessageLines == {Chars("MESSAGE \"M\"")}
DiscIdLines == {Chars("DISC_ID \"D\"")}
GenreLines == {Chars("GENRE \"G\"")}
UpcEanLines == {Chars("UPC_EAN \"U\"")}
UnknownLines == {Chars("FOO bar"), Chars("TITLE\t\"T\"")}

(***************************************************************************)
(* The state: the fields of a CueParser, the position of parse() in its    *)
(* loop, and the ParseResult it returned.                                  *)
(***************************************************************************)
VARIABLES
  pc,            \* "idle": constructed, "loop": inside parse's for loop, "done": parse returned
  lineNumber,    \* the loop's lineNumber (i + 1) of the line last processed
  line,          \* the loop's line: the text of the line last processed
  currentTrack,  \* this.currentTrack: a reference into heap, or NoTrack
  heap,          \* the Track objects allocated by handleTrack
  global,        \* this.global
  tracks,        \* this.tracks: a list of references into heap
  errors,        \* this.errors
  warnings,      \* this.warnings
  result,        \* the ParseResult parse returned, None before it returns
  cueSheet,      \* the CueSheet handed to the serializer, None when there is none
  output,        \* what serializeCueSheet(cueSheet) returned or raised, None before the call
  reparsed,      \* parseCueSheet of that output, None before the call
  minimal,       \* what createMinimalCueSheet(cueSheet) returned or raised, None before the call
  formatted,     \* the options of the formatCueSheet(cueSheet, options) call and its outcome, None before the call
  content,       \* the lines of the input parse() has consumed in the current call
  live,          \* the identity of the objects this.global and this.tracks refer to
  store,         \* the objects earlier calls left behind, by identity
  returned,      \* the ParseResults of the calls made so far, in order
  timeString,    \* the string handed to parseMSFTime / parseHMSTime
  timeA,         \* the first time operand, as its three numbers
  timeB,         \* the second time operand, as its three numbers
  timeResult     \* the last time utility called and what it returned or raised

parserVars ==
  <<pc, lineNumber, line, currentTrack, heap, global, tracks, errors, warnings, result>>
serVars == <<cueSheet, output, reparsed, minimal, formatted>>
callVars == <<content, live, store, returned>>
timeVars == <<timeString, timeA, timeB, timeResult>>
vars == <<parserVars, serVars, callVars, timeVars>>

\* the parser's fields as one context value
Ctx ==
  [currentTrack |-> currentTrack, heap |-> heap, global |-> global,
   tracks |-> tracks, errors |-> errors, warnings |-> warnings]

SetCtx(c) ==
  /\ currentTrack' = c.currentTrack
  /\ heap' = c.heap
  /\ global' = c.global
  /\ tracks' = c.tracks
  /\ errors' = c.errors
  /\ warnings' = c.warnings

Init ==
  /\ pc = "idle"
  /\ lineNumber = 0
  /\ line = <<>>
  /\ currentTrack = NoTrack
  /\ heap = <<>>
  /\ global = EmptyGlobal
  /\ tracks = <<>>
  /\ errors = <<>>
  /\ warnings = <<>>
  /\ result = None
  /\ cueSheet = None
  /\ output = None
  /\ reparsed = None
  /\ minimal = None
  /\ formatted = None
  /\ content = <<>>
  /\ live = 0
  /\ store = <<>>
  /\ returned = <<>>
  /\ timeString = <<>>
  /\ timeA = <<0, 0, 0>>
  /\ timeB = <<0, 0, 0>>
  /\ timeResult = None

\* reset() emptying the arrays it has instead of assigning new ones
Allocate_InPlace ==
  /\ live' = live
  /\ store' = store

\* `this.global = {}` and `this.tracks = []` in reset(): the fields refer to
\* new objects, and the objects they referred to stay as they are
Allocate ==
  /\ live' = live + 1
  /\ store' = (live :> [global |-> global, tracks |-> DerefTracks(Ctx)]) @@ store

\* the start of parse(): reset(), content.split, the loop variable
ParseEnter ==
  /\ pc' = "loop"
  /\ lineNumber' = 0
  /\ line' = <<>>
  /\ content' = <<>>
  /\ SetCtx(EmptyContext)
  /\ Allocate
  /\ UNCHANGED <<result, returned, serVars, timeVars>>

\* parse() is called on a parser just constructed
Reset ==
  /\ pc = "idle"
  /\ ParseEnter

\* parse() is called again on a parser whose last call has returned
ParseAgain ==
  /\ pc = "done"
  /\ Len(returned) < MaxCalls
  /\ ParseEnter

\* one iteration of parse's loop on the line l, which reaches the case c
Iterate(l, c) ==
  /\ pc = "loop"
  /\ lineNumber < MaxLines
  /\ Dispatch(l) = c
  /\ lineNumber' = lineNumber + 1
  /\ line' = l
  /\ content' = Append(content, l)
  /\ SetCtx(ParseLoopBody(Ctx, l, lineNumber + 1))
  /\ UNCHANGED <<pc, result, live, store, returned, serVars, timeVars>>

SkipLine == \E l \in SkipLines : Iterate(l, "")
HandleRemark == \E l \in RemLines : Iterate(l, "REM")
HandleCatalog == \E l \in CatalogLines : Iterate(l, "CATALOG")
HandleCdTextFile == \E l \in CdTextFileLines : Iterate(l, "CDTEXTFILE")
HandleFile == \E l \in FileLines : Iterate(l, "FILE")
HandleTrack == \E l \in TrackLines : Iterate(l, "TRACK")
HandleIndex == \E l \in IndexLines : Iterate(l, "INDEX")
HandlePregap == \E l \in PregapLines : Iterate(l, "PREGAP")
HandlePostgap == \E l \in PostgapLines : Iterate(l, "POSTGAP")
HandleFlags == \E l \in FlagsLines : Iterate(l, "FLAGS")
HandleIsrc == \E l \in IsrcLines : Iterate(l, "ISRC")
HandleTitle == \E l \in TitleLines : Iterate(l, "TITLE")
HandlePerformer == \E l \in PerformerLines : Iterate(l, "PERFORMER")
HandleSongwriter == \E l \in SongwriterLines : Iterate(l, "SONGWRITER")
HandleComposer == \E l \in ComposerLines : Iterate(l, "COMPOSER")
HandleArranger == \E l \in ArrangerLines : Iterate(l, "ARRANGER")
HandleMessage == \E l \in MessageLines : Iterate(l, "MESSAGE")
HandleDiscId == \E l \in DiscIdLines : Iterate(l, "DISC_ID")
HandleGenre == \E l \in GenreLines : Iterate(l, "GENRE")
HandleUpcEan == \E l \in UpcEanLines : Iterate(l, "UPC_EAN")
UnknownCommand == \E l \in UnknownLines : Iterate(l, "?")

\* the input is exhausted (split always yields at least one line): the open
\* track is committed and the result returned
ParseReturn ==
  /\ pc = "loop"
  /\ lineNumber >= 1
  /\ pc' = "done"
  /\ tracks' = CommitOpenTrack(Ctx).tracks
  /\ result' = Some(ParseFinish(Ctx))
  /\ returned' = Append(returned,
                        [content  |-> content,
                         errors   |-> errors,
                         warnings |-> warnings,
                         cueSheet |-> IF Len(errors) = 0 THEN Some(live) ELSE None])
  /\ UNCHANGED <<lineNumber, line, currentTrack, heap, global, errors, warnings,
                 content, live, store, serVars, timeVars>>

Next ==
  \/ Reset
  \/ SkipLine
  \/ HandleRemark
  \/ HandleCatalog
  \/ HandleCdTextFile
  \/ HandleFile
  \/ HandleTrack
  \/ HandleIndex
  \/ HandlePregap
  \/ HandlePostgap
  \/ HandleFlags
  \/ HandleIsrc
  \/ HandleTitle
  \/ HandlePerformer
  \/ HandleSongwriter
  \/ HandleComposer
  \/ HandleArranger
  \/ HandleMessage
  \/ HandleDiscId
  \/ HandleGenre
  \/ HandleUpcEan
  \/ UnknownCommand
  \/ ParseReturn

Spec == Init /\ [][Next]_vars

(***************************************************************************)
(* The serializer under test: documents drawn from a bounded set are       *)
(* serialized and the text is parsed again.  The documents are the         *)
(* CueSheet values a caller can build: times are either the {hour, minute, *)
(* second} objects src/types.ts declares or the {minutes, seconds, frames} *)
(* objects the parser stores and the tests build.                          *)
(***************************************************************************)
FileA == [filename |-> Chars("a.wav"), format |-> Some(Chars("WAVE"))]
FileB == [filename |-> Chars("b c.mp3"), format |-> None]

TrackTemplates(n) ==
  LET t == NewTrack(n, Chars("AUDIO"))
  IN  { t,
        [t EXCEPT !.title = Some(Chars("T")), !.performer = Some(Chars("P")),
                  !.file = Some(FileA),
                  !.indexes = Some(<<[number |-> 1, time |-> HMS(0, 2, 33)]>>)],
        [t EXCEPT !.title = Some(Chars("a\"b")), !.file = Some(FileA),
                  !.indexes = Some(<<[number |-> 1, time |-> HMS(1, 30, 45)],
                                     [number |-> 0, time |-> HMS(1, 28, 0)]>>)],
        [t EXCEPT !.file = Some(FileB), !.isrc = Some(Chars("GBUM71505078")),
                  !.flags = Some(<<Chars("PRE"), Chars("DCP")>>),
                  !.pregap = Some(HMS(0, 2, 0)), !.postgap = Some(HMS(0, 1, 0)),
                  !.remarks = Some(<<Chars("note")>>)],
        [t EXCEPT !.title = Some(Chars("M")),
                  !.indexes = Some(<<[number |-> 1, time |-> MSF(0, 2, 33)]>>)],
        [t EXCEPT !.songwriter = Some(Chars("S")), !.composer = Some(Chars("C")),
                  !.arranger = Some(Chars("R")), !.message = Some(Chars("M"))],
        [t EXCEPT !.title = Some(Chars("PREGAP")),
                  !.file = Some([filename |-> Chars("INDEX 00.wav"), format |-> None])] }

Globals ==
  { EmptyGlobal,
    [EmptyGlobal EXCEPT !.title = Some(Chars("He said \"hi\"")),
                        !.performer = Some(Chars("A")),
                        !.catalog = Some(Chars("1234567890123")),
                        !.remarks = Some(<<Chars("GENRE Pop")>>)] }

RECURSIVE TrackLists(_)
TrackLists(n) ==
  IF n = 0 THEN {<<>>}
  ELSE LET shorter == TrackLists(n - 1)
       IN  shorter \cup {Append(ts, t) : ts \in {x \in shorter : Len(x) = n - 1},
                                        t \in TrackTemplates(n)}

Documents == {[global |-> g, tracks |-> ts] : g \in Globals, ts \in TrackLists(MaxTracks)}

InitSer ==
  /\ pc = "idle"
  /\ lineNumber = 0
  /\ line = <<>>
  /\ currentTrack = NoTrack
  /\ heap = <<>>
  /\ global = EmptyGlobal
  /\ tracks = <<>>
  /\ errors = <<>>
  /\ warnings = <<>>
  /\ result = None
  /\ cueSheet \in {Some(d) : d \in Documents}
  /\ output = None
  /\ reparsed = None
  /\ minimal = None
  /\ formatted = None
  /\ content = <<>>
  /\ live = 0
  /\ store = <<>>
  /\ returned = <<>>
  /\ timeString = <<>>
  /\ timeA = <<0, 0, 0>>
  /\ timeB = <<0, 0, 0>>
  /\ timeResult = None

\* the caller calls serializeCueSheet(cueSheet)
Serialize ==
  /\ IsSome(cueSheet)
  /\ output = None
  /\ output' = Some(serializeCueSheet(Get(cueSheet)))
  /\ cueSheet' = Some(DocumentAfterContent(Get(cueSheet)))
  /\ UNCHANGED <<parserVars, reparsed, minimal, formatted, callVars, timeVars>>

\* the caller calls parseCueSheet on the text serializeCueSheet returned
Reparse ==
  /\ IsSome(output)
  /\ ~Get(output).threw
  /\ reparsed = None
  /\ reparsed' = Some(parseCueSheet(Get(output).value))
  /\ UNCHANGED <<parserVars, cueSheet, output, minimal, formatted, callVars, timeVars>>

\* the caller calls createMinimalCueSheet(cueSheet)
Minimize ==
  /\ IsSome(cueSheet)
  /\ minimal = None
  /\ minimal' = Some(createMinimalCueSheet(Get(cueSheet)))
  /\ UNCHANGED <<parserVars, cueSheet, output, reparsed, formatted, callVars, timeVars>>

\* the options formatCueSheet is called with: none, spacing switched off, and
\* a two-space indent
FormatOptions ==
  { [indent |-> None, trackSpacing |-> None],
    [indent |-> None, trackSpacing |-> Some(FALSE)],
    [indent |-> Some(Chars("  ")), trackSpacing |-> Some(TRUE)] }

\* the caller calls formatCueSheet(cueSheet, options)
Format ==
  /\ IsSome(cueSheet)
  /\ formatted = None
  /\ \E options \in FormatOptions :
       formatted' = Some([options |-> options,
                          outcome |-> formatCueSheet(Get(cueSheet), options)])
  /\ cueSheet' = Some(DocumentAfterContent(Get(cueSheet)))
  /\ UNCHANGED <<parserVars, output, reparsed, minimal, callVars, timeVars>>

NextSer ==
  \/ Serialize
  \/ Reparse
  \/ Minimize
  \/ Format

SpecSer == InitSer /\ [][NextSer]_vars

(***************************************************************************)
(* One parser used for several parse() calls: the caller keeps every       *)
(* ParseResult it was handed; the results refer to the global record and   *)
(* the track array the parser held when it returned.                       *)
(***************************************************************************)
CallLines == {Chars("TRACK 01 AUDIO"), Chars("TITLE \"T\""), Chars("CATALOG 123")}

\* one iteration of the loop on a line of CallLines
ParseLineOfCall == \E l \in CallLines : Iterate(l, Dispatch(l))

NextCalls ==
  \/ Reset
  \/ ParseAgain
  \/ ParseLineOfCall
  \/ ParseReturn

SpecCalls == Init /\ [][NextCalls]_vars

\* the object with identity id as it is now: the one the parser's fields
\* refer to, or one an earlier reset() left behind
ObjectAt(id) ==
  IF id = live THEN [global |-> global, tracks |-> DerefTracks(Ctx)] ELSE store[id]

\* a ParseResult the caller holds, as the caller reads it now
ResultNow(r) ==
  [errors   |-> r.errors,
   warnings |-> r.warnings,
   cueSheet |-> IF IsSome(r.cueSheet) THEN Some(ObjectAt(Get(r.cueSheet))) ELSE None]

(***************************************************************************)
(* The time utilities under test: a caller holds a time string and two     *)
(* time operands and calls the utilities of src/utils.ts on them, feeding  *)
(* what a parse or a conversion returned to its inverse.                   *)
(***************************************************************************)
TimeStrings ==
  {Chars("0:00:00"), Chars("1:30:45"), Chars("12:34:56"), Chars("100:00:00"),
   Chars("007:5:9"), Chars("0:59:74"), Chars("0:59:60"), Chars("0:60:00"),
   Chars("0:00:75"), Chars("-1:00:00"), Chars("1x:02:03"), Chars("1:2.5:3"),
   Chars("a:b:c"), Chars("1:2"), Chars("1:2:3:4"), Chars("1::3"), Chars("")}

TimeTriples == {<<m, s, f>> : m \in {0, 1, MaxMinutes}, s \in {0, 59}, f \in {0, 59, 74}}

InitTime ==
  /\ pc = "idle"
  /\ lineNumber = 0
  /\ line = <<>>
  /\ currentTrack = NoTrack
  /\ heap = <<>>
  /\ global = EmptyGlobal
  /\ tracks = <<>>
  /\ errors = <<>>
  /\ warnings = <<>>
  /\ result = None
  /\ cueSheet = None
  /\ output = None
  /\ reparsed = None
  /\ minimal = None
  /\ formatted = None
  /\ content = <<>>
  /\ live = 0
  /\ store = <<>>
  /\ returned = <<>>
  /\ \/ /\ timeString \in TimeStrings
        /\ timeA = <<0, 0, 0>>
        /\ timeB = <<0, 0, 0>>
     \/ /\ timeString = <<>>
        /\ timeA \in TimeTriples
        /\ timeB \in TimeTriples
  /\ timeResult = None

\* the time operands as the objects of the two halves of src/utils.ts
AsMSF(t) == MSF(t[1], t[2], t[3])
AsHMS(t) == HMS(t[1], t[2], t[3])

\* a utility is called on the inputs and its outcome kept
CallOnInput(op, r) ==
  /\ timeResult = None
  /\ timeResult' = Some([op |-> op, r |-> r])
  /\ UNCHANGED <<parserVars, serVars, callVars, timeString, timeA, timeB>>

\* a utility is called on the value the utility `after` returned
CallOnResult(after, op, r) ==
  /\ IsSome(timeResult)
  /\ Get(timeResult).op = after
  /\ ~Get(timeResult).r.threw
  /\ timeResult' = Some([op |-> op, r |-> r])
  /\ UNCHANGED <<parserVars, serVars, callVars, timeString, timeA, timeB>>

\* the value the last utility returned
LastValue == Get(timeResult).r.value

ParseMSFTime == CallOnInput("parseMSFTime", parseMSFTime(timeString))
FormatMSFTime == CallOnResult("parseMSFTime", "formatMSFTime", formatMSFTime(LastValue, TRUE))
ParseHMSTime == CallOnInput("parseHMSTime", parseHMSTime(timeString))
FormatHMSTime == CallOnResult("parseHMSTime", "formatHMSTime", formatHMSTime(LastValue, TRUE))
MsfToFrames == CallOnInput("msfToFrames", Return(msfToFrames(AsMSF(timeA))))
FramesToMSF == CallOnResult("msfToFrames", "framesToMSF", Return(framesToMSF(LastValue)))
HmsToSeconds == CallOnInput("hmsToSeconds", Return(hmsToSeconds(AsHMS(timeA))))
SecondsToHMS == CallOnResult("hmsToSeconds", "secondsToHMS", Return(secondsToHMS(LastValue)))
MsfToFramesAlias ==
  CallOnInput("msfToFramesAlias", Return(msfToFramesAlias(AsHMS(timeA))))
FramesToMSFAlias ==
  CallOnResult("msfToFramesAlias", "framesToMSFAlias", Return(framesToMSFAlias(LastValue)))
SubtractMSFTime == CallOnInput("subtractMSFTime", subtractMSFTime(AsMSF(timeA), AsMSF(timeB)))
SubtractHMSTime == CallOnInput("subtractHMSTime", subtractHMSTime(AsHMS(timeA), AsHMS(timeB)))

NextTime ==
  \/ ParseMSFTime
  \/ FormatMSFTime
  \/ ParseHMSTime
  \/ FormatHMSTime
  \/ MsfToFrames
  \/ FramesToMSF
  \/ HmsToSeconds
  \/ SecondsToHMS
  \/ MsfToFramesAlias
  \/ FramesToMSFAlias
  \/ SubtractMSFTime
  \/ SubtractHMSTime

SpecTime == InitTime /\ [][NextTime]_vars

(***************************************************************************)
(* Properties of the parser, checked under Spec.                           *)
(***************************************************************************)
\* a step that is one iteration of parse's loop
LoopStep == pc = "loop" /\ lineNumber' = lineNumber + 1

\* the argument string parseLine hands to the handler of a line
ArgsOf(l) == parseCommand(Trim(l)).args

\* C2: the result of parse carries a document if and only if its error list
\* is empty, whatever the warning list holds; the lists of the result are
\* the parser's lists.
C2_DocumentIffNoErrors ==
  pc = "done" =>
    /\ IsSome(result)
    /\ Get(result).errors = errors
    /\ Get(result).warnings = warnings
    /\ IsSome(Get(result).cueSheet) <=> Len(errors) = 0

\* C2 witness: a parse that returned a document together with a warning
C2_Witness ==
  /\ pc = "done"
  /\ Len(Get(result).warnings) > 0
  /\ IsSome(Get(result).cueSheet)

\* C3: no track is appended to the track list more than once, and once parse
\* has returned the track that was open is in the list exactly once.
C3_NoTrackCommittedTwice ==
  /\ \A i, j \in 1..Len(tracks) : i # j => tracks[i] # tracks[j]
  /\ (pc = "done" /\ currentTrack # NoTrack) =>
       Cardinality({i \in 1..Len(tracks) : tracks[i] = currentTrack}) = 1

TrackOnlyCommands == {"INDEX", "PREGAP", "POSTGAP", "FLAGS", "ISRC"}

\* C4: an INDEX, PREGAP, POSTGAP, FLAGS or ISRC line processed while no track
\* is open appends one error for that line, appends no warning, and leaves
\* the global record, the track list and the open-track slot unchanged.
C4_TrackOnlyOutsideTrack ==
  [][(LoopStep /\ Dispatch(line') \in TrackOnlyCommands /\ currentTrack = NoTrack) =>
       /\ Len(errors') = Len(errors) + 1
       /\ errors'[Len(errors')].line = lineNumber'
       /\ SubSeq(errors', 1, Len(errors)) = errors
       /\ warnings' = warnings
       /\ global' = global
       /\ tracks' = tracks
       /\ heap' = heap
       /\ currentTrack' = NoTrack]_vars

\* C4 witness: a track-only command was processed with no track open
C4_Witness ==
  /\ pc = "loop"
  /\ lineNumber >= 1
  /\ Dispatch(line) \in TrackOnlyCommands
  /\ currentTrack = NoTrack
  /\ Len(errors) >= 1
  /\ errors[Len(errors)].line = lineNumber

DecimalDigits == {"0", "1", "2", "3", "4", "5", "6", "7", "8", "9"}
ThirteenDigits(s) == Len(s) = 13 /\ \A i \in 1..Len(s) : s[i] \in DecimalDigits

\* C5: a CATALOG line whose argument is not exactly 13 digits appends one
\* error and leaves the global record unchanged; after every step the
\* catalog field, when present, is a string of 13 digits.
C5_CatalogThirteenDigits ==
  [][/\ (LoopStep /\ Dispatch(line') = "CATALOG" /\ ~ThirteenDigits(ArgsOf(line'))) =>
          /\ Len(errors') = Len(errors) + 1
          /\ errors'[Len(errors')].line = lineNumber'
          /\ global' = global
     /\ IsSome(global'.catalog) => ThirteenDigits(Get(global'.catalog))]_vars

\* C5 witness: a CATALOG line with a bad argument was processed after a
\* catalog had been set
C5_Witness ==
  /\ lineNumber >= 2
  /\ Dispatch(line) = "CATALOG"
  /\ ~ThirteenDigits(ArgsOf(line))
  /\ IsSome(global.catalog)
  /\ Len(errors) >= 1
  /\ errors[Len(errors)].line = lineNumber

\* C6: when the handler of a line raises, the loop appends exactly one error
\* carrying that line's number, the message raised and the line, and goes
\* on with the loop; when it does not raise, no error is appended.
C6_FailureIsOneError ==
  [][LoopStep =>
       LET r == parseLine(Ctx, line', lineNumber')
       IN  /\ r.threw =>
                /\ errors' = Append(errors, [line |-> lineNumber',
                                             message |-> r.message,
                                             rawLine |-> line'])
                /\ warnings' = r.ctx.warnings
           /\ ~r.threw => errors' = errors
           /\ pc' = "loop"
           /\ lineNumber' < MaxLines => ENABLED SkipLine]_vars

\* C6 witness: a line was processed after a line that raised
C6_Witness ==
  /\ Len(errors) >= 1
  /\ errors[1].line < lineNumber
  /\ Len(errors) + Len(warnings) < lineNumber

\* the field each text command writes
TextField ==
  [c \in {"TITLE", "PERFORMER", "SONGWRITER", "COMPOSER", "ARRANGER", "MESSAGE", "REM"} |->
     CASE c = "TITLE" -> "title"
       [] c = "PERFORMER" -> "performer"
       [] c = "SONGWRITER" -> "songwriter"
       [] c = "COMPOSER" -> "composer"
       [] c = "ARRANGER" -> "arranger"
       [] c = "MESSAGE" -> "message"
       [] c = "REM" -> "remarks"]

\* the value a text command leaves in its field, given the field before
WrittenBy(c, old, l) ==
  IF c = "REM"
    THEN Some((IF IsSome(old) THEN Get(old) ELSE <<>>) \o <<ArgsOf(l)>>)
    ELSE Some(parseQuotedString(ArgsOf(l)))

\* C7: with a track open, a TITLE, PERFORMER, SONGWRITER, COMPOSER, ARRANGER,
\* MESSAGE or REM line changes that one field of the open track and nothing
\* else; with no track open it changes that one field of the global record
\* and nothing else.
C7_TextCommandScope ==
  [][(LoopStep /\ Dispatch(line') \in DOMAIN TextField) =>
       LET c == Dispatch(line')
           f == TextField[c]
       IN  /\ errors' = errors
           /\ warnings' = warnings
           /\ tracks' = tracks
           /\ currentTrack' = currentTrack
           /\ DOMAIN heap' = DOMAIN heap
           /\ IF currentTrack # NoTrack
                THEN /\ global' = global
                     /\ \A id \in DOMAIN heap : id # currentTrack => heap'[id] = heap[id]
                     /\ \A g \in DOMAIN heap[currentTrack] :
                          g # f => heap'[currentTrack][g] = heap[currentTrack][g]
                     /\ heap'[currentTrack][f] = WrittenBy(c, heap[currentTrack][f], line')
                ELSE /\ heap' = heap
                     /\ \A g \in DOMAIN global : g # f => global'[g] = global[g]
                     /\ global'[f] = WrittenBy(c, global[f], line')]_vars

\* C7 witness: a TITLE line was processed with a track open
C7_Witness ==
  /\ lineNumber >= 2
  /\ Dispatch(line) = "TITLE"
  /\ currentTrack # NoTrack
  /\ IsSome(heap[currentTrack].title)
  /\ global.title = None

\* a FILE argument string with a well-formed file name and a valid or
\* absent format token
FileArgsWellFormed(a) ==
  LET t == Trim(a)
  IN  IF t # <<>> /\ Head(t) = "\""
        THEN \E q \in 2..Len(t) :
               /\ t[q] = "\""
               /\ \A m \in 2..(q - 1) : t[m] # "\""
               /\ LET rest == Trim(SubSeq(t, q + 1, Len(t)))
                  IN  rest = <<>> \/ ToUpperCase(rest) \in FileFormats
        ELSE LET toks == SplitWS(t)
             IN  Len(toks) <= 1 \/ ToUpperCase(toks[2]) \in FileFormats

\* C12: a FILE line with a well-formed file name and a valid or absent
\* format, processed while no track is open, appends exactly one warning
\* for that line and no error, and leaves the global record, the track list
\* and every track unchanged; a track that is opened starts without a file,
\* and a track's file changes only by a FILE line processed while that
\* track is open.
C12_GlobalFileDiscarded ==
  [][/\ (LoopStep /\ Dispatch(line') = "FILE" /\ currentTrack = NoTrack
           /\ FileArgsWellFormed(ArgsOf(line'))) =>
          /\ Len(warnings') = Len(warnings) + 1
          /\ SubSeq(warnings', 1, Len(warnings)) = warnings
          /\ warnings'[Len(warnings')].line = lineNumber'
          /\ errors' = errors
          /\ global' = global
          /\ tracks' = tracks
          /\ heap' = heap
          /\ currentTrack' = NoTrack
     /\ LoopStep =>
          /\ \A id \in DOMAIN heap' \ DOMAIN heap : heap'[id].file = None
          /\ \A id \in DOMAIN heap \cap DOMAIN heap' :
               heap'[id].file # heap[id].file =>
                 Dispatch(line') = "FILE" /\ id = currentTrack]_vars

\* C12 witness: a track was opened right after a well-formed FILE line that
\* had no open track; the warning is there and the track has no file
C12_Witness ==
  /\ pc = "loop"
  /\ lineNumber = 2
  /\ Dispatch(content[1]) = "FILE"
  /\ FileArgsWellFormed(ArgsOf(content[1]))
  /\ Len(warnings) = 1
  /\ warnings[1].line = 1
  /\ Len(errors) = 0
  /\ global = EmptyGlobal
  /\ currentTrack = 2
  /\ heap[currentTrack].file = None

(***************************************************************************)
(* Properties of the serializer, checked under SpecSer.                    *)
(***************************************************************************)
\* the three numbers of a time, whichever names its fields have
TimeValues(t) ==
  IF "hour" \in DOMAIN t THEN <<t.hour, t.minute, t.second>>
  ELSE <<t.minutes, t.seconds, t.frames>>

\* the indexes of a track as a set of <<number, time values>>
IndexValues(track) ==
  IF IsSome(track.indexes)
    THEN {<<Get(track.indexes)[k].number, TimeValues(Get(track.indexes)[k].time)>> :
            k \in 1..Len(Get(track.indexes))}
    ELSE {}

\* C1: serializing a document and parsing the text gives zero errors and a
\* document with the same number of tracks, the same track numbers and, per
\* track, the same title, performer and index times.
C1_RoundTrip ==
  /\ IsSome(output) => ~Get(output).threw
  /\ IsSome(reparsed) =>
       LET d == Get(cueSheet)
           r == Get(reparsed)
       IN  /\ Len(r.errors) = 0
           /\ IsSome(r.cueSheet)
           /\ Len(Get(r.cueSheet).tracks) = Len(d.tracks)
           /\ \A i \in 1..Len(d.tracks) :
                LET a == d.tracks[i]
                    b == Get(r.cueSheet).tracks[i]
                IN  /\ b.number = a.number
                    /\ b.title = a.title
                    /\ b.performer = a.performer
                    /\ IndexValues(b) = IndexValues(a)

\* the lines of the text serializeCueSheet returned
OutputLines == SplitChar(Get(output).value, "\n")
Serialized == IsSome(output) /\ ~Get(output).threw

IsFileLine(l) == StartsWith(Trim(l), Chars("FILE "))

\* the tracks whose filename differs from the filename of the nearest
\* earlier track that has a file: the filename most recently emitted
StartsFileRun(ts, i) ==
  /\ IsSome(ts[i].file)
  /\ LET earlier == {j \in 1..(i - 1) : IsSome(ts[j].file)}
     IN  earlier # {} =>
           LET j == CHOOSE k \in earlier : \A m \in earlier : m <= k
           IN  Get(ts[j].file).filename # Get(ts[i].file).filename

\* C8: the output has one FILE line for each track whose filename differs
\* from the filename most recently emitted, and no other FILE line.
C8_OneFileLinePerRun ==
  Serialized =>
    Cardinality({k \in 1..Len(OutputLines) : IsFileLine(OutputLines[k])})
      = Cardinality({i \in 1..Len(Get(cueSheet).tracks) :
                       StartsFileRun(Get(cueSheet).tracks, i)})

TextFields == {"title", "performer", "songwriter", "composer", "arranger", "message"}

\* C9: every quoted text value the serializer writes is read back unchanged
\* by the parser: the text fields of the global record and of every track of
\* the parsed output equal those of the document.
C9_QuotedTextReadBack ==
  (/\ IsSome(reparsed)
   /\ IsSome(Get(reparsed).cueSheet)
   /\ Len(Get(Get(reparsed).cueSheet).tracks) = Len(Get(cueSheet).tracks)) =>
    LET d == Get(cueSheet)
        r == Get(Get(reparsed).cueSheet)
    IN  /\ \A f \in TextFields : r.global[f] = d.global[f]
        /\ \A i \in 1..Len(d.tracks) : \A f \in TextFields :
             r.tracks[i][f] = d.tracks[i][f]

\* the number of tab characters a line starts with
LeadingTabs(l) ==
  IF \E k \in 1..Len(l) : l[k] # "\t"
    THEN (CHOOSE k \in 1..Len(l) : l[k] # "\t" /\ \A m \in 1..(k - 1) : l[m] = "\t") - 1
    ELSE Len(l)

\* the lines of the output that follow the global section
TrackSectionLines ==
  LET g == Len(serializeGlobal(Get(cueSheet).global, <<>>))
  IN  {k \in (g + 1)..Len(OutputLines) : OutputLines[k] # <<>>}

\* C10: in the output every TRACK line starts with exactly two tabs and
\* every other line emitted for a track with exactly three.
C10_TabIndentation ==
  Serialized =>
    \A k \in TrackSectionLines :
      LET l == OutputLines[k]
      IN  IF StartsWith(TrimStart(l), Chars("TRACK "))
            THEN LeadingTabs(l) = 2
            ELSE LeadingTabs(l) = 3

\* sub occurs in s as a substring
Contains(s, sub) ==
  \E k \in 1..(Len(s) - Len(sub) + 1) : SubSeq(s, k, k + Len(sub) - 1) = sub

\* createMinimalCueSheet returned a text
Minimized == IsSome(minimal) /\ ~Get(minimal).threw
MinimalLines == SplitChar(Get(minimal).value, "\n")

\* the document has a pregap or an index 00 on some track
HasPregapOrIndex00 ==
  \E i \in 1..Len(Get(cueSheet).tracks) :
    LET t == Get(cueSheet).tracks[i]
    IN  \/ IsSome(t.pregap)
        \/ /\ IsSome(t.indexes)
           /\ \E k \in 1..Len(Get(t.indexes)) : Get(t.indexes)[k].number = 0

\* C11 as stated: the text createMinimalCueSheet returns contains neither
\* the substring PREGAP nor the substring INDEX 00, whatever the document.
C11_NoPregapSubstring ==
  Minimized =>
    /\ ~Contains(Get(minimal).value, Chars("PREGAP"))
    /\ ~Contains(Get(minimal).value, Chars("INDEX 00"))

\* C11 amended: no line of the text createMinimalCueSheet returns is a
\* PREGAP command or an INDEX 00 command, whatever pregaps and indexes the
\* document has; the words may still occur inside a title or a file name.
C11_NoPregapCommand ==
  Minimized =>
    \A k \in 1..Len(MinimalLines) :
      /\ ~StartsWith(TrimStart(MinimalLines[k]), Chars("PREGAP"))
      /\ ~StartsWith(TrimStart(MinimalLines[k]), Chars("INDEX 00"))

\* C11 witness: a text was returned for a document that has a pregap or an
\* index 00
C11_Witness == Minimized /\ HasPregapOrIndex00

(***************************************************************************)
(* Properties of the time utilities, checked under SpecTime.               *)
(***************************************************************************)
\* the last utility called was op
Called(op) == IsSome(timeResult) /\ Get(timeResult).op = op
LastResult == Get(timeResult).r

\* the fields of a time string: the pieces between its colons
TimeFields(s) == SplitChar(s, ":")
IsNumeral(f) == f # <<>> /\ \A i \in 1..Len(f) : f[i] \in DecimalDigits
NumeralValue(f) == DigitsValue(f, 0)

\* s is three numerals separated by colons, the second below bound2 and the
\* third below bound3
WellFormedTime(s, bound2, bound3) ==
  /\ Len(TimeFields(s)) = 3
  /\ \A i \in 1..3 : IsNumeral(TimeFields(s)[i])
  /\ NumeralValue(TimeFields(s)[2]) < bound2
  /\ NumeralValue(TimeFields(s)[3]) < bound3

\* a number in decimal, with a leading zero when it has one digit
TwoDigits(n) == IF n < 10 THEN <<"0">> \o NatToString(n) ELSE NatToString(n)

\* the canonical rendering of a well-formed time string
Normalized(s) ==
  TwoDigits(NumeralValue(TimeFields(s)[1])) \o <<":">>
    \o TwoDigits(NumeralValue(TimeFields(s)[2])) \o <<":">>
    \o TwoDigits(NumeralValue(TimeFields(s)[3]))

\* C13: for a well-formed time string, parseMSFTime (parseHMSTime) returns
\* the three values of its fields, and formatMSFTime (formatHMSTime) of that
\* value returns the same three values, each padded with zeros to two
\* digits, separated by colons.
C13_FormatParseNormalizes ==
  /\ (Called("parseMSFTime") /\ WellFormedTime(timeString, 60, 75)) =>
       /\ ~LastResult.threw
       /\ LastResult.value = MSF(NumeralValue(TimeFields(timeString)[1]),
                                 NumeralValue(TimeFields(timeString)[2]),
                                 NumeralValue(TimeFields(timeString)[3]))
  /\ (Called("formatMSFTime") /\ WellFormedTime(timeString, 60, 75)) =>
       LastResult = Return(Normalized(timeString))
  /\ (Called("parseHMSTime") /\ WellFormedTime(timeString, 60, 60)) =>
       /\ ~LastResult.threw
       /\ LastResult.value = HMS(NumeralValue(TimeFields(timeString)[1]),
                                 NumeralValue(TimeFields(timeString)[2]),
                                 NumeralValue(TimeFields(timeString)[3]))
  /\ (Called("formatHMSTime") /\ WellFormedTime(timeString, 60, 60)) =>
       LastResult = Return(Normalized(timeString))

\* C13 witness: a string with one-digit and three-digit fields was parsed
\* and formatted
C13_Witness ==
  /\ Called("formatMSFTime")
  /\ timeString = Chars("007:5:9")
  /\ LastResult.value = Chars("07:05:09")

ValidMSF(t) == t[1] >= 0 /\ t[2] \in 0..59 /\ t[3] \in 0..74
ValidHMS(t) == t[1] >= 0 /\ t[2] \in 0..59 /\ t[3] \in 0..59

\* C14: framesToMSF(msfToFrames(t)) = t for every MSF time t with seconds
\* below 60 and frames below 75, and secondsToHMS(hmsToSeconds(t)) = t for
\* every HMS time t with minutes and seconds below 60; the same holds for
\* the aliases of the HMS conversions.
C14_ConversionsInverse ==
  /\ (Called("framesToMSF") /\ ValidMSF(timeA)) => LastResult.value = AsMSF(timeA)
  /\ (Called("secondsToHMS") /\ ValidHMS(timeA)) => LastResult.value = AsHMS(timeA)
  /\ (Called("framesToMSFAlias") /\ ValidHMS(timeA)) => LastResult.value = AsHMS(timeA)

\* C14 witness: a time with 74 frames and the largest minutes went through
\* both MSF conversions
C14_Witness ==
  /\ Called("framesToMSF")
  /\ timeA = <<MaxMinutes, 59, 74>>
  /\ LastResult.value = MSF(MaxMinutes, 59, 74)

\* C15: parseMSFTime and parseHMSTime return a value exactly for the
\* strings that are three colon-separated integers within bounds, and raise
\* for every other string.
C15_ParseRejectsMalformed ==
  /\ Called("parseMSFTime") => (~LastResult.threw <=> WellFormedTime(timeString, 60, 75))
  /\ Called("parseHMSTime") => (~LastResult.threw <=> WellFormedTime(timeString, 60, 60))

\* the unit counts of the operands, computed from their three numbers
FrameCount(t) == (t[1] * 60 + t[2]) * 75 + t[3]
SecondCount(t) == (t[1] * 60 + t[2]) * 60 + t[3]

\* C16: subtractMSFTime(a, b) raises exactly when a has fewer frames than
\* b, and otherwise returns the time with seconds below 60 and frames below
\* 75 whose frame count is the difference; subtractHMSTime likewise with
\* seconds.
C16_SubtractRaisesOnNegative ==
  /\ Called("subtractMSFTime") =>
       /\ LastResult.threw <=> FrameCount(timeA) < FrameCount(timeB)
       /\ ~LastResult.threw =>
            LET v == LastResult.value
            IN  /\ v.minutes >= 0 /\ v.seconds \in 0..59 /\ v.frames \in 0..74
                /\ FrameCount(<<v.minutes, v.seconds, v.frames>>)
                     = FrameCount(timeA) - FrameCount(timeB)
  /\ Called("subtractHMSTime") =>
       /\ LastResult.threw <=> SecondCount(timeA) < SecondCount(timeB)
       /\ ~LastResult.threw =>
            LET v == LastResult.value
            IN  /\ v.hour >= 0 /\ v.minute \in 0..59 /\ v.second \in 0..59
                /\ SecondCount(<<v.hour, v.minute, v.second>>)
                     = SecondCount(timeA) - SecondCount(timeB)

\* C16 witness: a subtraction was refused because the first operand is one
\* second shorter than the second
C16_Witness ==
  /\ Called("subtractHMSTime")
  /\ timeA = <<0, 59, 59>>
  /\ timeB = <<1, 0, 0>>
  /\ LastResult.threw

(***************************************************************************)
(* Further properties of the parser, checked under Spec.                   *)
(***************************************************************************)
\* C17: a TRACK line opens a track exactly when its first token is a
\* numeral with a value from 1 to 99 and its second token, in upper case,
\* is one of the eight track modes; then no error is appended and the new
\* track has that number and mode; otherwise one error is appended and no
\* track is opened.
C17_TrackArgumentsValidated ==
  [][(LoopStep /\ Dispatch(line') = "TRACK") =>
       LET toks == SplitWS(ArgsOf(line'))
           ok   == /\ Len(toks) >= 2
                   /\ IsNumeral(toks[1])
                   /\ NumeralValue(toks[1]) \in 1..99
                   /\ ToUpperCase(toks[2]) \in TrackModes
       IN  IF ok
             THEN /\ errors' = errors
                  /\ currentTrack' = lineNumber'
                  /\ heap'[currentTrack'].number = NumeralValue(toks[1])
                  /\ heap'[currentTrack'].mode = ToUpperCase(toks[2])
             ELSE /\ Len(errors') = Len(errors) + 1
                  /\ errors'[Len(errors')].line = lineNumber'
                  /\ currentTrack' = currentTrack
                  /\ DOMAIN heap' = DOMAIN heap]_vars

\* C18: in a document parse returns, the track numbers are pairwise
\* distinct, each is in 1..99, and the tracks are in the order of the TRACK
\* lines that opened them.
C18_TrackNumbersDistinct ==
  (pc = "done" /\ IsSome(Get(result).cueSheet)) =>
    LET ts == Get(Get(result).cueSheet).tracks
    IN  /\ Len(ts) = Len(tracks)
        /\ \A i \in 1..Len(ts) : ts[i].number \in 1..99
        /\ \A i, j \in 1..Len(ts) : i # j => ts[i].number # ts[j].number
        /\ \A i, j \in 1..Len(tracks) : i < j => tracks[i] < tracks[j]

\* C19: every error and every warning carries the number of the line that
\* produced it and, as rawLine, the text of that line as it stood in the
\* input.
C19_DiagnosticsCarryLine ==
  \A d \in {errors[i] : i \in 1..Len(errors)} \cup {warnings[i] : i \in 1..Len(warnings)} :
    /\ d.line \in 1..Len(content)
    /\ d.rawLine = content[d.line]

(***************************************************************************)
(* Properties of repeated parse() calls, checked under SpecCalls.          *)
(***************************************************************************)
\* what a parser constructed for the purpose returns for the lines ls
FreshParse(ls) == ParseFinish(ParseLines(EmptyContext, ls, 1))

\* C20: the result a parse() call returns is what a fresh parser returns
\* for the input of that call, whatever calls came before it on the same
\* parser; and no step of a later call changes what the results returned
\* earlier read as.
C20_ParseIsPure ==
  [][/\ Len(returned') = Len(returned) + 1 =>
          ResultNow(returned[Len(returned)])' = FreshParse(content)
     /\ \A k \in 1..Len(returned) :
          /\ returned'[k] = returned[k]
          /\ ResultNow(returned[k])' = ResultNow(returned[k])]_vars

\* C20 witness: a second call is under way and has changed the parser's
\* global record and opened a track, after a first call that returned a
\* document
C20_Witness ==
  /\ Len(returned) = 1
  /\ IsSome(returned[1].cueSheet)
  /\ pc = "loop"
  /\ lineNumber = 2
  /\ IsSome(global.title)
  /\ currentTrack # NoTrack
  /\ ObjectAt(Get(returned[1].cueSheet)).global.title = None

(***************************************************************************)
(* Further properties of the serializer, checked under SpecSer.            *)
(***************************************************************************)
\* formatCueSheet returned a text
Formatted == IsSome(formatted) /\ ~Get(formatted).outcome.threw
FormattedLines == SplitChar(Get(formatted).outcome.value, "\n")

\* the line is the command kw followed by its arguments
IsCommandLine(l, kw) == StartsWith(TrimStart(l), Chars(kw) \o <<" ">>)

\* the n-th smallest member of a set of numbers
Nth(S, n) == CHOOSE x \in S : Cardinality({y \in S : y < x}) = n - 1

\* the positions of the lines emitted for the i-th track: from its TRACK line
\* up to the line before the next TRACK line
TrackBlock(ls, i) ==
  LET trackLines == {k \in 1..Len(ls) : IsCommandLine(ls[k], "TRACK")}
      first == Nth(trackLines, i)
      last  == IF i < Cardinality(trackLines) THEN Nth(trackLines, i + 1) - 1 ELSE Len(ls)
  IN  first..last

\* the index numbers of the INDEX lines emitted for the i-th track, in the
\* order of the lines
EmittedIndexNumbers(ls, i) ==
  LET at == {k \in TrackBlock(ls, i) : IsCommandLine(ls[k], "INDEX")}
  IN  [n \in 1..Cardinality(at) |->
         DigitsValue(SubSeq(TrimStart(ls[Nth(at, n)]), 7, 8), 0)]

\* the INDEX lines of the i-th track are those of the track's indexes, in
\* ascending order of index number
IndexLinesSorted(ls, i) ==
  LET e   == EmittedIndexNumbers(ls, i)
      ixs == IF IsSome(Get(cueSheet).tracks[i].indexes)
               THEN Get(Get(cueSheet).tracks[i].indexes) ELSE <<>>
  IN  /\ \A a \in 1..Len(e) : \A b \in a..Len(e) : e[a] <= e[b]
      /\ Len(e) = Len(ixs)
      /\ \A n \in 0..99 :
           Cardinality({a \in 1..Len(e) : e[a] = n})
             = Cardinality({a \in 1..Len(ixs) : ixs[a].number = n})

\* C21: for every track, whatever the order of its indexes in the document,
\* the texts of serializeCueSheet and formatCueSheet carry that track's INDEX
\* lines sorted ascending by index number.
C21_IndexLinesSorted ==
  /\ Serialized =>
       \A i \in 1..Len(Get(cueSheet).tracks) : IndexLinesSorted(OutputLines, i)
  /\ Formatted =>
       \A i \in 1..Len(Get(cueSheet).tracks) : IndexLinesSorted(FormattedLines, i)

\* some track of the document lists a higher index number before a lower one
HasUnsortedIndexes ==
  \E i \in 1..Len(Get(cueSheet).tracks) :
    LET t == Get(cueSheet).tracks[i]
    IN  /\ IsSome(t.indexes)
        /\ \E a \in 1..Len(Get(t.indexes)) : \E b \in (a + 1)..Len(Get(t.indexes)) :
             Get(t.indexes)[a].number > Get(t.indexes)[b].number

C21_Witness == Serialized /\ Formatted /\ HasUnsortedIndexes

\* C22: serializeCueSheet, formatCueSheet and createMinimalCueSheet leave
\* their input document as it was: the global record, the track list and the
\* order of every track's index list are the same after the call.
C22_InputNotMutated == [][cueSheet' = cueSheet]_vars

C22_Witness ==
  /\ HasUnsortedIndexes
  /\ Serialized
  /\ Formatted
  /\ Minimized
  /\ Len(Get(cueSheet).tracks) = MaxTracks

\* the lines of a text that are not empty
NonBlankLines(ls) == SelectSeq(ls, LAMBDA l : l # <<>>)

\* C23: formatCueSheet emits the same content as serializeCueSheet: called
\* with track spacing disabled and no indent its text equals the text of
\* serializeCueSheet, and with track spacing enabled and no indent the two
\* texts have the same lines once the blank lines are left out.
C23_FormatMatchesSerialize ==
  (Serialized /\ Formatted /\ Get(formatted).options.indent = None) =>
    IF Get(formatted).options.trackSpacing = Some(FALSE)
      THEN Get(formatted).outcome.value = Get(output).value
      ELSE NonBlankLines(FormattedLines) = NonBlankLines(OutputLines)

\* C24: every FILE line of the output lies in the lines of the track it
\* belongs to, after that track's TRACK line and before the next TRACK line,
\* and no FILE line precedes the first TRACK line.
C24_FileInsideTrack ==
  Serialized =>
    \A k \in 1..Len(OutputLines) :
      IsFileLine(OutputLines[k]) =>
        \E i \in 1..Len(Get(cueSheet).tracks) :
          /\ k \in TrackBlock(OutputLines, i)
          /\ ~IsCommandLine(OutputLines[k], "TRACK")
          /\ IsSome(Get(cueSheet).tracks[i].file)
          /\ TrimStart(OutputLines[k]) = FileLine("", Get(Get(cueSheet).tracks[i].file))

\* some track of the document has a file
HasTrackFile ==
  \E i \in 1..Len(Get(cueSheet).tracks) : IsSome(Get(cueSheet).tracks[i].file)

\* C29: when tracks of the document carry files, parsing the serialized text
\* gives a document in which the track at each position has the filename and
\* the format of the track at that position in the original.
C29_FileRoundTrip ==
  (IsSome(reparsed) /\ HasTrackFile) =>
    /\ IsSome(Get(reparsed).cueSheet)
    /\ LET d == Get(cueSheet)
           r == Get(Get(reparsed).cueSheet)
       IN  /\ Len(r.tracks) = Len(d.tracks)
           /\ \A i \in 1..Len(d.tracks) : r.tracks[i].file = d.tracks[i].file

(***************************************************************************)
(* Further properties of the parser's loop, checked under Spec.            *)
(***************************************************************************)
\* twelve characters, each an upper-case letter or a digit
TwelveUpperAlnum(s) ==
  /\ Len(s) = 12
  /\ \A i \in 1..Len(s) : s[i] \in {UpperLetters[k] : k \in 1..26} \cup {Digits[k] : k \in 1..10}

\* the step appends one warning for the line and no error
OneWarningNoError ==
  /\ Len(warnings') = Len(warnings) + 1
  /\ SubSeq(warnings', 1, Len(warnings)) = warnings
  /\ warnings'[Len(warnings')].line = lineNumber'
  /\ errors' = errors

\* C25: an ISRC line processed while a track is open, with a value that is
\* not 12 upper-case alphanumeric characters, appends one warning and no
\* error, and the value is stored as the open track's ISRC.
C25_InvalidIsrcStored ==
  [][(/\ LoopStep
      /\ Dispatch(line') = "ISRC"
      /\ currentTrack # NoTrack
      /\ ~TwelveUpperAlnum(ArgsOf(line'))) =>
       /\ OneWarningNoError
       /\ currentTrack' = currentTrack
       /\ heap'[currentTrack].isrc = Some(ArgsOf(line'))]_vars

\* C25 witness: the second line was an ISRC with the value "bad", inside the
\* track the first line opened
C25_Witness ==
  /\ pc = "loop"
  /\ lineNumber = 2
  /\ Dispatch(content[2]) = "ISRC"
  /\ ArgsOf(content[2]) = Chars("bad")
  /\ currentTrack # NoTrack
  /\ heap[currentTrack].isrc = Some(Chars("bad"))
  /\ Len(warnings) = 1
  /\ warnings[1].line = 2
  /\ Len(errors) = 0

\* C26: a line whose command keyword is not a known command appends one
\* warning and no error, and leaves the global record, the track list, the
\* open-track slot and the open track unchanged.
C26_UnknownCommandWarns ==
  [][(LoopStep /\ Dispatch(line') = "?") =>
       /\ OneWarningNoError
       /\ global' = global
       /\ tracks' = tracks
       /\ currentTrack' = currentTrack
       /\ heap' = heap]_vars

\* C26 witness: an unknown command was processed while a track was open
C26_Witness ==
  /\ pc = "loop"
  /\ lineNumber = 2
  /\ Dispatch(content[2]) = "?"
  /\ currentTrack # NoTrack
  /\ Len(warnings) = 1
  /\ warnings[1].line = 2
  /\ Len(errors) = 0

\* the command and the argument string of a line, the command ending at the
\* first space or tab
TokensOf(l) ==
  LET t  == Trim(l)
      ws == {k \in 1..Len(t) : t[k] \in {" ", "\t"}}
  IN  IF ws = {} THEN [command |-> t, args |-> <<>>]
      ELSE LET k == CHOOSE x \in ws : \A y \in ws : x <= y
           IN  [command |-> SubSeq(t, 1, k - 1),
                args    |-> Trim(SubSeq(t, k + 1, Len(t)))]

\* the known command a keyword matches whatever its case, "?" when none
MatchCommand(c) ==
  IF \E k \in Commands : Chars(k) = ToUpperCase(c)
    THEN CHOOSE k \in Commands : Chars(k) = ToUpperCase(c)
    ELSE "?"

\* C27: for a non-blank line the loop takes as command the text up to the
\* first space or tab, matches it case-insensitively against the known
\* commands and hands the trimmed remainder to the handler; a blank line
\* changes nothing and adds no diagnostic.
C27_CommandUpToWhitespace ==
  [][LoopStep =>
       IF Trim(line') = <<>>
         THEN /\ errors' = errors
              /\ warnings' = warnings
              /\ global' = global
              /\ tracks' = tracks
              /\ currentTrack' = currentTrack
              /\ heap' = heap
         ELSE /\ parseCommand(Trim(line')) = TokensOf(line')
              /\ Dispatch(line') = MatchCommand(TokensOf(line').command)]_vars

\* C28: a line that appends an error leaves the global record, the list of
\* committed tracks, the open-track slot and the track objects unchanged,
\* whatever the command.
C28_ErrorLeavesContext ==
  [][(LoopStep /\ Len(errors') > Len(errors)) =>
       /\ global' = global
       /\ tracks' = tracks
       /\ currentTrack' = currentTrack
       /\ heap' = heap]_vars

\* the entries of a diagnostics list carry non-decreasing line numbers
OrderedByLine(ds) == \A i \in 1..Len(ds) : \A j \in i..Len(ds) : ds[i].line <= ds[j].line

\* the number of entries of a diagnostics list for line n
CountFor(ds, n) == Cardinality({i \in 1..Len(ds) : ds[i].line = n})

\* C30: every input line has at most one diagnostic, an error or a warning
\* and never both, and the errors and the warnings, of the parser and of the
\* result it returns, are each in non-decreasing order of line number.
C30_OneDiagnosticPerLine ==
  /\ \A n \in 1..lineNumber : CountFor(errors, n) + CountFor(warnings, n) <= 1
  /\ OrderedByLine(errors)
  /\ OrderedByLine(warnings)
  /\ pc = "done" =>
       /\ \A n \in 1..lineNumber :
            CountFor(Get(result).errors, n) + CountFor(Get(result).warnings, n) <= 1
       /\ OrderedByLine(Get(result).errors)
       /\ OrderedByLine(Get(result).warnings)

\* C30 witness: parse returned after a line that warned and a line that
\* raised
C30_Witness ==
  /\ pc = "done"
  /\ lineNumber = 2
  /\ Len(Get(result).warnings) = 1
  /\ Len(Get(result).errors) = 1
  /\ Get(result).warnings[1].line = 1
  /\ Get(result).errors[1].line = 2

====
